---- MODULE Spec2Model ----
(***************************************************************************)
(* Model of the binary decoders of pyosutools: the primitive codec         *)
(* (utils.py), the osu!.db decoder that streams beatmap records into an    *)
(* sqlite store (db/osu.py), the in-memory osu!.db decoder                 *)
(* (database/osu.py), and the collection.db / scores.db decoders.          *)
(*                                                                         *)
(* Values.  A byte is 0..255.  A 4-byte unsigned integer below 2^31 is a   *)
(* TLA+ integer, one from 2^31 on is kept as its four bytes.  An 8-byte    *)
(* unsigned integer is kept at its full width as four 16-bit limbs, least  *)
(* significant first.  A float / double is kept as its bit pattern         *)
(* (struct.unpack is a bijection on bit patterns), text as the sequence    *)
(* of its code points.                                                     *)
(***************************************************************************)
EXTENDS Integers, Sequences, FiniteSets, TLC

VARIABLES
    buffer,        \* codec: the io.BytesIO under test, [data, pos]
    last,          \* codec: the last primitive applied and what it returned
    reads,         \* codec: number of primitives applied to buffer
    osu_db_file,   \* _Parser.osu_db_file: the io.BytesIO being decoded, [data, pos]
    input,         \* which stream the running call was given (OsuInputs)
    skip_beatmaps, \* the skip_beatmaps argument of the running call
    pc,            \* position of parse_osudb: idle, beatmaps, done, raised
    locals,        \* parse's variables: game_version ... count_beatmaps
    parsed,        \* iterations of the beatmap loop completed
    rec_log,       \* per decoded record: where it started, ended, and its reads
    db_file,       \* the sqlite file: what every connection sees as committed
    pending,       \* rows inserted by the open transaction of beatmaps_db
    result,        \* what parse_osudb returned (None before, and when it raised)
    error,         \* the exception that left parse_osudb, and the part that raised it
    calls,         \* number of parse_osudb calls started
    store_at_call  \* the sqlite file as the running call found it

codec_vars == <<buffer, last, reads>>
osu_vars   == <<osu_db_file, input, skip_beatmaps, pc, locals, parsed, rec_log,
                db_file, pending, result, error, calls, store_at_call>>
vars       == <<codec_vars, osu_vars>>

Min(a, b) == IF a < b THEN a ELSE b

\* a reader that returns zero bytes where the stream has ended
ReadZeroFilled(data, pos, n) ==
    [bytes |-> [i \in 1..n |-> IF pos + i <= Len(data) THEN data[pos + i] ELSE 0],
     pos   |-> Min(pos + n, Len(data))]

\* ---------------------------------------------------------------------
\* io.BytesIO.read(n): at most n bytes from the cursor, the cursor moves
\* past what was returned.
\* ---------------------------------------------------------------------
Read(data, pos, n) ==
    [bytes |-> SubSeq(data, pos + 1, Min(pos + n, Len(data))),
     pos   |-> Min(pos + n, Len(data))]

None == [none |-> TRUE]

Ok(v, p)    == [ok |-> TRUE,  val |-> v,    err |-> "",  pos |-> p]
Raise(e, p) == [ok |-> FALSE, val |-> None, err |-> e,   pos |-> p]

\* struct.unpack(fmt, bytes): raises struct.error unless exactly the n bytes
\* of the format are supplied.
Unpack(n, r, Conv(_)) ==
    IF Len(r.bytes) = n THEN Ok(Conv(r.bytes), r.pos)
    ELSE Raise("struct.error", r.pos)

read_bool(data, pos)   == Unpack(1, Read(data, pos, 1), LAMBDA b : b[1] # 0)
read_ubyte(data, pos)  == Unpack(1, Read(data, pos, 1), LAMBDA b : b[1])
read_ushort(data, pos) == Unpack(2, Read(data, pos, 2), LAMBDA b : b[1] + 256 * b[2])
read_uint(data, pos)   ==
    Unpack(4, Read(data, pos, 4),
           LAMBDA b : IF b[4] < 128
                      THEN b[1] + 256 * b[2] + 65536 * b[3] + 16777216 * b[4]
                      ELSE <<"I">> \o b)
read_float(data, pos)  == Unpack(4, Read(data, pos, 4), LAMBDA b : <<"f">> \o b)
read_double(data, pos) == Unpack(8, Read(data, pos, 8), LAMBDA b : <<"d">> \o b)
read_ulong(data, pos)  ==
    Unpack(8, Read(data, pos, 8),
           LAMBDA b : <<b[1] + 256 * b[2], b[3] + 256 * b[4],
                        b[5] + 256 * b[6], b[7] + 256 * b[8]>>)

\* Sequencing of two reads: an exception raised by the first leaves the
\* caller at once, otherwise the rest runs on what the first returned.
Bind(r, Rest(_)) == IF r.ok THEN Rest(r) ELSE r

\* osu specific
read_int_double(data, pos) ==
    Bind(read_ubyte(data, pos), LAMBDA t1 :
    Bind(read_uint(data, t1.pos), LAMBDA integer :
    Bind(read_ubyte(data, integer.pos), LAMBDA t2 :
    Bind(read_double(data, t2.pos), LAMBDA double :
    Ok(<<integer.val, double.val>>, double.pos)))))

read_timing_point(data, pos) ==
    Bind(read_double(data, pos), LAMBDA bpm :
    Bind(read_double(data, bpm.pos), LAMBDA offset :
    Bind(read_bool(data, offset.pos), LAMBDA inherited :
    Ok(<<bpm.val, offset.val, inherited.val>>, inherited.pos))))

\* ---------------------------------------------------------------------
\* bytes.decode("utf-8"): strict UTF-8.  A lead byte fixes the length of
\* the sequence; continuation bytes are 0x80..0xBF; overlong forms,
\* surrogates and code points above 0x10FFFF are rejected.
\* ---------------------------------------------------------------------
Utf8Len(lead) ==
    IF lead < 128 THEN 1
    ELSE IF lead >= 194 /\ lead <= 223 THEN 2
    ELSE IF lead >= 224 /\ lead <= 239 THEN 3
    ELSE IF lead >= 240 /\ lead <= 244 THEN 4
    ELSE 0

Utf8Point(bs, i, n) ==
    IF n = 1 THEN bs[i]
    ELSE IF n = 2 THEN (bs[i] % 32) * 64 + (bs[i + 1] % 64)
    ELSE IF n = 3 THEN (bs[i] % 16) * 4096 + (bs[i + 1] % 64) * 64 + (bs[i + 2] % 64)
    ELSE (bs[i] % 8) * 262144 + (bs[i + 1] % 64) * 4096
         + (bs[i + 2] % 64) * 64 + (bs[i + 3] % 64)

Utf8MinPoint(n) == IF n = 1 THEN 0 ELSE IF n = 2 THEN 128 ELSE IF n = 3 THEN 2048 ELSE 65536

RECURSIVE Utf8DecodeFrom(_, _, _)
Utf8DecodeFrom(bs, i, acc) ==
    IF i > Len(bs) THEN [ok |-> TRUE, val |-> acc]
    ELSE LET n == Utf8Len(bs[i]) IN
         IF n = 0 \/ i + n - 1 > Len(bs)
            \/ (\E k \in 1..(n - 1) : bs[i + k] < 128 \/ bs[i + k] > 191)
         THEN [ok |-> FALSE, val |-> <<>>]
         ELSE LET cp == Utf8Point(bs, i, n) IN
              IF cp < Utf8MinPoint(n) \/ (cp >= 55296 /\ cp <= 57343) \/ cp > 1114111
              THEN [ok |-> FALSE, val |-> <<>>]
              ELSE Utf8DecodeFrom(bs, i + n, Append(acc, cp))

\* An all-ASCII payload decodes byte for byte (the n = 1 case of the above at
\* every position), which spares the recursion on long payloads.
Utf8Decode(bs) ==
    IF \A i \in 1..Len(bs) : bs[i] < 128
    THEN [ok |-> TRUE, val |-> bs]
    ELSE Utf8DecodeFrom(bs, 1, <<>>)

Pow2(n) == 2 ^ n

\* the loop with its groups taken for whole bytes (shift += 8)
RECURSIVE Uleb128Bytes(_, _, _, _)
Uleb128Bytes(data, pos, strlen, shift) ==
    Bind(read_ubyte(data, pos), LAMBDA byte :
         IF (byte.val \div 128) % 2 = 0
         THEN Ok(strlen + (byte.val % 128) * Pow2(shift), byte.pos)
         ELSE Uleb128Bytes(data, byte.pos, strlen + (byte.val % 128) * Pow2(shift), shift + 8))

\* The ULEB128 loop of read_string.  strlen |= (byte & 0x7F) << shift: the
\* shifted groups occupy disjoint bit ranges, so the OR is a sum.
RECURSIVE Uleb128(_, _, _, _)
Uleb128(data, pos, strlen, shift) ==
    Bind(read_ubyte(data, pos), LAMBDA byte :
         IF (byte.val \div 128) % 2 = 0
         THEN Ok(strlen + (byte.val % 128) * Pow2(shift), byte.pos)
         ELSE Uleb128(data, byte.pos, strlen + (byte.val % 128) * Pow2(shift), shift + 7))

\* .decode(encoding) of the unpacked payload
DecodeText(text, pos) ==
    IF text.ok THEN Ok(text.val, pos) ELSE Raise("UnicodeDecodeError", pos)

read_string(data, pos) ==
    Bind(read_ubyte(data, pos), LAMBDA strflag :
    Bind(IF strflag.val = 11 THEN Uleb128(data, strflag.pos, 0, 0)
         ELSE Ok(0, strflag.pos), LAMBDA strlen :
    Bind(Unpack(strlen.val, Read(data, strlen.pos, strlen.val), LAMBDA b : b), LAMBDA raw :
    DecodeText(Utf8Decode(raw.val), raw.pos))))

\* ---------------------------------------------------------------------
\* 64-bit arithmetic on 16-bit limbs (least significant first).
\* ---------------------------------------------------------------------
GE64(a, b) ==
    \/ a = b
    \/ \E i \in 1..4 : a[i] > b[i] /\ \A j \in (i + 1)..4 : a[j] = b[j]

\* a - b for a >= b
Sub64(a, b) ==
    LET bw1 == IF a[1] < b[1] THEN 1 ELSE 0
        bw2 == IF a[2] < b[2] + bw1 THEN 1 ELSE 0
        bw3 == IF a[3] < b[3] + bw2 THEN 1 ELSE 0
    IN  <<(a[1] - b[1]) % 65536,
          (a[2] - b[2] - bw1) % 65536,
          (a[3] - b[3] - bw2) % 65536,
          (a[4] - b[4] - bw3) % 65536>>

\* quotient and remainder of a by a small divisor d
DivMod64(a, d) ==
    LET c4 == a[4]
        c3 == (c4 % d) * 65536 + a[3]
        c2 == (c3 % d) * 65536 + a[2]
        c1 == (c2 % d) * 65536 + a[1]
    IN  [q |-> <<c1 \div d, c2 \div d, c3 \div d, c4 \div d>>, r |-> c1 % d]

\* a + 1 (a below 2^64 - 1)
Inc64(a) ==
    IF a[1] + 1 < 65536 THEN <<a[1] + 1, a[2], a[3], a[4]>>
    ELSE IF a[2] + 1 < 65536 THEN <<0, a[2] + 1, a[3], a[4]>>
    ELSE IF a[3] + 1 < 65536 THEN <<0, 0, a[3] + 1, a[4]>>
    ELSE <<0, 0, 0, a[4] + 1>>

\* 621355968000000000 = 0x089F7FF5F7B58000, the ticks of 1970-01-01T00:00:00
EpochTicks == <<32768, 63413, 32757, 2207>>

\* 253402300799999999 = 0x0384440CCC735FFF, the microseconds from 1970-01-01 to
\* datetime.max (9999-12-31T23:59:59.999999)
MaxMicroseconds == <<24575, 52339, 17420, 900>>

\* datetime.datetime.min: naive, 0001-01-01T00:00:00
DatetimeMin == [tz |-> "naive", since |-> 1, us |-> <<0, 0, 0, 0>>]

\* an aware datetime of the given microseconds after 1970-01-01, ValueError
\* when its year would exceed 9999
UtcDatetime(us, pos) ==
    IF GE64(MaxMicroseconds, us)
    THEN Ok([tz |-> "utc", since |-> 1970, us |-> us], pos)
    ELSE Raise("ValueError", pos)

\* rounding half to even of q + r/10
RoundHalfEven(d) ==
    IF d.r > 5 \/ (d.r = 5 /\ d.q[1] % 2 = 1) THEN Inc64(d.q) ELSE d.q

\* datetime.fromtimestamp(x, tz=utc) of x = delta / 10_000_000 seconds: the
\* instant is kept to the microsecond, rounded half to even; a year above
\* 9999 raises ValueError.  The quotient is taken exactly (the float64
\* quotient agrees with it on the microsecond for the tick values used here).
fromtimestamp(delta, pos) == UtcDatetime(RoundHalfEven(DivMod64(delta, 10)), pos)

read_datetime(data, pos) ==
    Bind(read_ulong(data, pos), LAMBDA ticks :
         IF GE64(ticks.val, EpochTicks)
         THEN fromtimestamp(Sub64(ticks.val, EpochTicks), ticks.pos)
         ELSE Ok(DatetimeMin, ticks.pos))

\* ---------------------------------------------------------------------
\* Domain data model (db/datatypes.py, datatypes.py)
\* ---------------------------------------------------------------------
RankedStatusValues == 0..7
GameModeValues     == 0..3

\* Enum(value): the member with that value, ValueError when there is none
EnumOf(name, values, r) ==
    IF ~r.ok THEN r
    ELSE IF r.val \in values THEN Ok([enum |-> name, value |-> r.val], r.pos)
    ELSE Raise("ValueError", r.pos)

RankedStatus(r) == EnumOf("RankedStatus", RankedStatusValues, r)
GameMode(r)     == EnumOf("GameMode", GameModeValues, r)

\* IntFlag: every combination of bits is a value
Mod(v)             == [flag |-> "Mod", value |-> v]
UserPermissions(v) == [flag |-> "UserPermissions", value |-> v]

ModStarRatingPair(tmp) == [mod |-> Mod(tmp[1]), star_rating |-> tmp[2]]
TimingPoint(tmp)       == [bpm |-> tmp[1], offset |-> tmp[2], inherited |-> tmp[3]]

\* one element of a counted sequence: the read and the object built from it
ReadItem(item, data, pos) ==
    CASE item = "ModStarRatingPair" ->
            Bind(read_int_double(data, pos), LAMBDA tmp :
                 Ok(ModStarRatingPair(tmp.val), tmp.pos))
      [] item = "TimingPoint" ->
            Bind(read_timing_point(data, pos), LAMBDA tmp :
                 Ok(TimingPoint(tmp.val), tmp.pos))
      [] item = "string" -> read_string(data, pos)

\* for _ in range(n): items.append(ReadItem(buffer))
RECURSIVE ReadItems(_, _, _, _, _)
ReadItems(item, data, pos, n, acc) ==
    IF n = 0 THEN Ok(acc, pos)
    ELSE Bind(ReadItem(item, data, pos), LAMBDA it :
              ReadItems(item, data, it.pos, n - 1, Append(acc, it.val)))

\* for _ in range(read_uint(buffer)): items.append(ReadItem(buffer))
ReadCounted(item, data, pos) ==
    Bind(read_uint(data, pos), LAMBDA count :
         ReadItems(item, data, count.pos, count.val, <<>>))

\* One statement of a record decoder: the primitive it calls
ReadKind(kind, data, pos) ==
    CASE kind = "bool"          -> read_bool(data, pos)
      [] kind = "ubyte"         -> read_ubyte(data, pos)
      [] kind = "ushort"        -> read_ushort(data, pos)
      [] kind = "uint"          -> read_uint(data, pos)
      [] kind = "float"         -> read_float(data, pos)
      [] kind = "double"        -> read_double(data, pos)
      [] kind = "ulong"         -> read_ulong(data, pos)
      [] kind = "string"        -> read_string(data, pos)
      [] kind = "datetime"      -> read_datetime(data, pos)
      [] kind = "RankedStatus"  -> RankedStatus(read_ubyte(data, pos))
      [] kind = "GameMode"      -> GameMode(read_ubyte(data, pos))
      [] kind = "Mod"           -> Bind(read_uint(data, pos), LAMBDA v : Ok(Mod(v.val), v.pos))
      [] kind = "pairs"         -> ReadCounted("ModStarRatingPair", data, pos)
      [] kind = "timing_points" -> ReadCounted("TimingPoint", data, pos)

Stmt(name, kind) == [name |-> name, kind |-> kind]

\* The decoder after one more statement: the value read is bound to the
\* statement's variable and the read is logged, or the exception is kept.
StmtDone(r, stmt, run) ==
    IF ~r.ok THEN [ok |-> FALSE, err |-> r.err, pos |-> r.pos, env |-> run.env, log |-> run.log]
    ELSE [ok |-> TRUE, err |-> "", pos |-> r.pos,
          env |-> (stmt.name :> r.val) @@ run.env,
          log |-> Append(run.log, [name |-> stmt.name, kind |-> stmt.kind,
                                   at |-> run.pos, size |-> r.pos - run.pos])]

\* the statements from the i-th on; the first exception leaves the decoder
RECURSIVE RunFrom(_, _, _, _)
RunFrom(data, stmts, run, i) ==
    IF ~run.ok \/ i > Len(stmts) THEN run
    ELSE RunFrom(data, stmts,
                 StmtDone(ReadKind(stmts[i].kind, data, run.pos), stmts[i], run), i + 1)

\* Runs the statements in order from the cursor pos.  env binds each local
\* variable, log records every read that returned.
RunStmts(data, pos, stmts, i, env, log) ==
    RunFrom(data, stmts, [ok |-> TRUE, err |-> "", pos |-> pos, env |-> env, log |-> log], i)

\* if game_ver < 20191106: read_uint  (ignore size)
SizeStmts(game_ver) ==
    IF game_ver < 20191106 THEN <<Stmt("ignore_size", "uint")>> ELSE <<>>

\* ar, cs, hp, od: read_ubyte if game_ver < 20140609, else read_float
StatStmts(game_ver) ==
    IF game_ver < 20140609
    THEN <<Stmt("ar", "ubyte"), Stmt("cs", "ubyte"), Stmt("hp", "ubyte"), Stmt("od", "ubyte")>>
    ELSE <<Stmt("ar", "float"), Stmt("cs", "float"), Stmt("hp", "float"), Stmt("od", "float")>>

\* the four loops with the first two filling each other's list
PairStmtsSwapped(game_ver) ==
    IF game_ver >= 20140609
    THEN <<Stmt("taiko_pairs", "pairs"), Stmt("std_pairs", "pairs"),
           Stmt("ctb_pairs", "pairs"), Stmt("mania_pairs", "pairs")>>
    ELSE <<>>

\* the four counted mod/star-rating loops, if game_ver >= 20140609
PairStmts(game_ver) ==
    IF game_ver >= 20140609
    THEN <<Stmt("std_pairs", "pairs"), Stmt("taiko_pairs", "pairs"),
           Stmt("ctb_pairs", "pairs"), Stmt("mania_pairs", "pairs")>>
    ELSE <<>>

\* the unknown field never consumed
UnknownStmtsNever(game_ver) == <<>>

\* if game_ver < 20140609: read_uint  (unknown)
UnknownStmts(game_ver) ==
    IF game_ver < 20140609 THEN <<Stmt("ignore_unknown", "uint")>> ELSE <<>>

\* _Parser.parse_beatmap: the reads in program order
BeatmapStmts(game_ver) ==
    SizeStmts(game_ver)
    \o <<Stmt("artist", "string"), Stmt("artist_unicode", "string"), Stmt("title", "string"),
         Stmt("title_unicode", "string"), Stmt("creator", "string"), Stmt("difficulty", "string"),
         Stmt("audio_file", "string"), Stmt("md5_hash", "string"), Stmt("osu_file", "string"),
         Stmt("ranked_status", "RankedStatus"),
         Stmt("count_hitcircles", "ushort"), Stmt("count_sliders", "ushort"),
         Stmt("count_spiners", "ushort"),
         Stmt("last_modification", "datetime")>>
    \o StatStmts(game_ver)
    \o <<Stmt("slider_velocity", "double")>>
    \o PairStmts(game_ver)
    \o <<Stmt("drain_time", "uint"), Stmt("total_time", "uint"), Stmt("preview_time", "uint"),
         Stmt("timing_points", "timing_points"),
         Stmt("difficulty_id", "uint"), Stmt("beatmap_id", "uint"), Stmt("thread_id", "uint"),
         Stmt("std_grade", "ubyte"), Stmt("taiko_grade", "ubyte"),
         Stmt("ctb_grade", "ubyte"), Stmt("mania_grade", "ubyte"),
         Stmt("local_offset", "ushort"), Stmt("stack_laniency", "float"),
         Stmt("gameplay_mode", "GameMode"),
         Stmt("song_source", "string"), Stmt("song_tags", "string"),
         Stmt("online_offset", "ushort"),
         Stmt("title_font", "string"),
         Stmt("unplayed", "bool"), Stmt("last_played", "datetime"),
         Stmt("is_osz2", "bool"), Stmt("folder_name", "string"), Stmt("last_checked", "datetime"),
         Stmt("ignore_sound", "bool"), Stmt("ignore_skin", "bool"),
         Stmt("disable_storyboard", "bool"), Stmt("disable_video", "bool"),
         Stmt("visual_override", "bool")>>
    \o UnknownStmts(game_ver)
    \o <<Stmt("ignore_modification2", "uint"),
         Stmt("mania_scroll_speed", "ubyte")>>

\* the lists that parse_beatmap initialises before its version test
BeatmapLocals ==
    [std_pairs |-> <<>>, taiko_pairs |-> <<>>, ctb_pairs |-> <<>>, mania_pairs |-> <<>>]

\* Beatmap(artist, artist_unicode, ...): the dataclass fields, positionally
Beatmap(e) ==
    [artist |-> e.artist, artist_unicode |-> e.artist_unicode, title |-> e.title,
     title_unicode |-> e.title_unicode, mapper |-> e.creator, difficulty |-> e.difficulty,
     audio_file |-> e.audio_file, md5_hash |-> e.md5_hash, osu_file |-> e.osu_file,
     ranked_status |-> e.ranked_status, count_hitcircles |-> e.count_hitcircles,
     count_sliders |-> e.count_sliders, count_spinners |-> e.count_spiners,
     last_modification |-> e.last_modification,
     ar |-> e.ar, cs |-> e.cs, hp |-> e.hp, od |-> e.od,
     slider_velocity |-> e.slider_velocity,
     std_pairs |-> e.std_pairs, taiko_pairs |-> e.taiko_pairs,
     ctb_pairs |-> e.ctb_pairs, mania_pairs |-> e.mania_pairs,
     drain_time |-> e.drain_time, total_time |-> e.total_time, preview_time |-> e.preview_time,
     timing_points |-> e.timing_points,
     difficulty_id |-> e.difficulty_id, beatmap_id |-> e.beatmap_id, thread_id |-> e.thread_id,
     std_grade |-> e.std_grade, taiko_grade |-> e.taiko_grade,
     ctb_grade |-> e.ctb_grade, mania_grade |-> e.mania_grade,
     local_offset |-> e.local_offset, stack_leniency |-> e.stack_laniency,
     gameplay_mode |-> e.gameplay_mode,
     song_source |-> e.song_source, song_tags |-> e.song_tags,
     online_offset |-> e.online_offset, title_font |-> e.title_font,
     unplayed |-> e.unplayed, last_played |-> e.last_played,
     is_osz2 |-> e.is_osz2, folder_name |-> e.folder_name, last_checked |-> e.last_checked,
     ignore_sound |-> e.ignore_sound, ignore_skin |-> e.ignore_skin,
     disable_storyboard |-> e.disable_storyboard, disable_video |-> e.disable_video,
     visual_override |-> e.visual_override, mania_scroll_speed |-> e.mania_scroll_speed]

\* return Beatmap(...) once every statement has run
ReturnBeatmap(run) ==
    [ok  |-> run.ok, err |-> run.err, pos |-> run.pos, log |-> run.log,
     val |-> IF run.ok THEN Beatmap(run.env) ELSE None]

parse_beatmap(data, pos, game_ver) ==
    ReturnBeatmap(RunStmts(data, pos, BeatmapStmts(game_ver), 1, BeatmapLocals, <<>>))

\* ---------------------------------------------------------------------
\* Wire format of the inputs (the byte layouts the game client writes):
\* little-endian integers, 0x0b + ULEB128 length + UTF-8 for a string,
\* 0x00 for an absent string.
\* ---------------------------------------------------------------------
EncU16(n) == <<n % 256, n \div 256>>
EncU32(n) == <<n % 256, (n \div 256) % 256, (n \div 65536) % 256, n \div 16777216>>
EncU64(l) == EncU16(l[1]) \o EncU16(l[2]) \o EncU16(l[3]) \o EncU16(l[4])
EncBool(b) == IF b THEN <<1>> ELSE <<0>>
EncBits(f) == Tail(f)

RECURSIVE EncUleb128(_)
EncUleb128(n) ==
    IF n < 128 THEN <<n>> ELSE <<128 + (n % 128)>> \o EncUleb128(n \div 128)

RECURSIVE Utf8EncodeFrom(_, _)
Utf8EncodeFrom(s, i) ==
    IF i > Len(s) THEN <<>>
    ELSE LET cp == s[i] IN
         (IF cp < 128 THEN <<cp>>
          ELSE IF cp < 2048 THEN <<192 + (cp \div 64), 128 + (cp % 64)>>
          ELSE IF cp < 65536
               THEN <<224 + (cp \div 4096), 128 + ((cp \div 64) % 64), 128 + (cp % 64)>>
          ELSE <<240 + (cp \div 262144), 128 + ((cp \div 4096) % 64),
                 128 + ((cp \div 64) % 64), 128 + (cp % 64)>>)
         \o Utf8EncodeFrom(s, i + 1)

Utf8Encode(s) ==
    IF \A i \in 1..Len(s) : s[i] < 128 THEN s ELSE Utf8EncodeFrom(s, 1)

\* the length-prefixed form, also for the empty string
EncString(s) == LET b == Utf8Encode(s) IN <<11>> \o EncUleb128(Len(b)) \o b
\* what the client writes: an empty string is the single byte 0x00
EncStr(s) == IF s = <<>> THEN <<0>> ELSE EncString(s)

RECURSIVE Concat(_)
Concat(ss) == IF ss = <<>> THEN <<>> ELSE Head(ss) \o Concat(Tail(ss))

EncPair(p) == <<8>> \o EncU32(p.mod.value) \o <<13>> \o EncBits(p.star_rating)
EncPairs(ps) == EncU32(Len(ps)) \o Concat([i \in 1..Len(ps) |-> EncPair(ps[i])])
EncTimingPoint(t) == EncBits(t.bpm) \o EncBits(t.offset) \o EncBool(t.inherited)
EncTimingPoints(ts) == EncU32(Len(ts)) \o Concat([i \in 1..Len(ts) |-> EncTimingPoint(ts[i])])

\* the four versions at the two thresholds of the record layout
Versions == {20140608, 20140609, 20191105, 20191106}

F32(k) == <<"f", 0, 0, k, 65>>
F64(k) == <<"d", 0, 0, 0, 0, 0, 0, k, 64>>
UtcMicros(n) == [tz |-> "utc", since |-> 1970, us |-> <<n, 0, 0, 0>>]
\* ticks of the instant n microseconds after 1970-01-01
TicksOfMicros(n) == <<32768 + 10 * n, 63413, 32757, 2207>>

\* The k-th sample beatmap as the decoder is expected to return it from a
\* stream of version ver
SampleBeatmap(k, ver) ==
    [artist |-> <<65, 48 + k>>, artist_unicode |-> <<233, 8364, 48 + k>>,
     title |-> <<84, 48 + k>>, title_unicode |-> <<>>,
     mapper |-> <<109>>, difficulty |-> <<72, 97, 114, 100>>,
     audio_file |-> <<97, 46, 109, 112, 51>>, md5_hash |-> <<104, 48 + k>>,
     osu_file |-> <<111, 48 + k>>,
     ranked_status |-> [enum |-> "RankedStatus", value |-> (3 + k) % 8],
     count_hitcircles |-> 100 + k, count_sliders |-> 300 + k, count_spinners |-> k,
     last_modification |-> UtcMicros(k),
     ar |-> IF ver < 20140609 THEN 9 ELSE F32(16),
     cs |-> IF ver < 20140609 THEN 4 ELSE F32(k),
     hp |-> IF ver < 20140609 THEN 5 + k ELSE F32(32),
     od |-> IF ver < 20140609 THEN 8 ELSE F32(48),
     slider_velocity |-> F64(k),
     std_pairs |-> IF ver < 20140609 THEN <<>>
                   ELSE [i \in 1..(k - 1) |-> [mod |-> Mod(64 * i), star_rating |-> F64(10 + i)]],
     taiko_pairs |-> IF ver < 20140609 THEN <<>>
                     ELSE <<[mod |-> Mod(0), star_rating |-> F64(20 + k)]>>,
     ctb_pairs |-> <<>>,
     mania_pairs |-> IF ver < 20140609 THEN <<>>
                     ELSE [i \in 1..(k % 2) |-> [mod |-> Mod(8388608), star_rating |-> F64(30)]],
     drain_time |-> 90 + k, total_time |-> 95000 + k, preview_time |-> 40000,
     timing_points |-> [i \in 1..k |-> [bpm |-> F64(i), offset |-> F64(40 + i),
                                        inherited |-> i % 2 = 0]],
     difficulty_id |-> 1000 + k, beatmap_id |-> 2000 + k, thread_id |-> 70000 + k,
     std_grade |-> 2, taiko_grade |-> 9, ctb_grade |-> 9, mania_grade |-> k % 8,
     local_offset |-> 3, stack_leniency |-> F32(7),
     gameplay_mode |-> [enum |-> "GameMode", value |-> k % 4],
     song_source |-> <<>>, song_tags |-> <<116, 32, 48 + k>>,
     online_offset |-> 600 + k, title_font |-> <<>>,
     unplayed |-> k % 2 = 1, last_played |-> DatetimeMin,
     is_osz2 |-> FALSE, folder_name |-> <<102, 47, 48 + k>>,
     last_checked |-> UtcMicros(0),
     ignore_sound |-> FALSE, ignore_skin |-> k % 2 = 0,
     disable_storyboard |-> TRUE, disable_video |-> FALSE,
     visual_override |-> k % 2 = 1, mania_scroll_speed |-> 10 + k]

EncDatetime(d) == IF d.tz = "utc" THEN EncU64(TicksOfMicros(d.us[1])) ELSE EncU64(<<0, 0, 0, 0>>)
EncStat(v, ver) == IF ver < 20140609 THEN <<v>> ELSE EncBits(v)

\* One beatmap record on the wire, in the layout of the given version
EncBeatmapBody(b, ver) ==
    EncStr(b.artist) \o EncStr(b.artist_unicode) \o EncStr(b.title) \o EncStr(b.title_unicode)
    \o EncStr(b.mapper) \o EncStr(b.difficulty) \o EncStr(b.audio_file)
    \o EncStr(b.md5_hash) \o EncStr(b.osu_file)
    \o <<b.ranked_status.value>>
    \o EncU16(b.count_hitcircles) \o EncU16(b.count_sliders) \o EncU16(b.count_spinners)
    \o EncDatetime(b.last_modification)
    \o EncStat(b.ar, ver) \o EncStat(b.cs, ver) \o EncStat(b.hp, ver) \o EncStat(b.od, ver)
    \o EncBits(b.slider_velocity)
    \o (IF ver >= 20140609
        THEN EncPairs(b.std_pairs) \o EncPairs(b.taiko_pairs)
             \o EncPairs(b.ctb_pairs) \o EncPairs(b.mania_pairs)
        ELSE <<>>)
    \o EncU32(b.drain_time) \o EncU32(b.total_time) \o EncU32(b.preview_time)
    \o EncTimingPoints(b.timing_points)
    \o EncU32(b.difficulty_id) \o EncU32(b.beatmap_id) \o EncU32(b.thread_id)
    \o <<b.std_grade, b.taiko_grade, b.ctb_grade, b.mania_grade>>
    \o EncU16(b.local_offset) \o EncBits(b.stack_leniency)
    \o <<b.gameplay_mode.value>>
    \o EncStr(b.song_source) \o EncStr(b.song_tags)
    \o EncU16(b.online_offset)
    \o EncStr(b.title_font)
    \o EncBool(b.unplayed) \o EncDatetime(b.last_played)
    \o EncBool(b.is_osz2) \o EncStr(b.folder_name) \o EncDatetime(b.last_checked)
    \o EncBool(b.ignore_sound) \o EncBool(b.ignore_skin)
    \o EncBool(b.disable_storyboard) \o EncBool(b.disable_video)
    \o EncBool(b.visual_override)
    \o (IF ver < 20140609 THEN EncU32(0) ELSE <<>>)
    \o EncU32(77)
    \o <<b.mania_scroll_speed>>

EncBeatmap(b, ver) ==
    LET body == EncBeatmapBody(b, ver) IN
    (IF ver < 20191106 THEN EncU32(Len(body)) ELSE <<>>) \o body

\* ---------------------------------------------------------------------
\* osu!.db (db/osu.py): parse_osudb and _Parser.parse, streaming the
\* records into the sqlite store.
\* ---------------------------------------------------------------------
MaxBeatmaps  == 2
MaxTemplates == 2
MaxCalls     == 2

\* bytes missing from the end of a damaged input
Cuts == {1, 5, 60}
Damages == {<<"none", 0>>, <<"bad_enum", 0>>} \cup {<<"cut", c>> : c \in Cuts}

\* the k-th record of a file whose first record is sample `first`
SampleAt(first, k) == ((first + k - 2) % MaxTemplates) + 1

OsuHeader(ver, user, n) ==
    EncU32(ver) \o EncU32(2736) \o EncBool(TRUE) \o EncU64(<<0, 0, 0, 0>>)
    \o EncStr(user) \o EncU32(n)

\* An osu!.db stream of n records; damage hits its end: bytes cut off, or
\* the ranked-status byte of the last record set to no member of the enum
OsuFile(ver, user, n, first, damage) ==
    LET rec(k) == LET b == SampleBeatmap(SampleAt(first, k), ver) IN
                  IF damage[1] = "bad_enum" /\ k = n
                  THEN EncBeatmap([b EXCEPT !.ranked_status.value = 9], ver)
                  ELSE EncBeatmap(b, ver)
        full == OsuHeader(ver, user, n) \o Concat([k \in 1..n |-> rec(k)]) \o EncU32(1)
    IN  IF damage[1] # "cut" THEN full
        ELSE SubSeq(full, 1, Len(full) - damage[2])

UserName == <<79, 108, 101, 103>>

\* the streams handed to parse_osudb, each with the description it was built from
OsuInput(ver, n, first, damage) ==
    [ver |-> ver, n |-> n, first |-> first, damage |-> damage,
     data |-> OsuFile(ver, UserName, n, first, damage)]

OsuInputs ==
    {OsuInput(ver, 0, 1, damage) : ver \in Versions, damage \in Damages \ {<<"bad_enum", 0>>}}
    \cup {OsuInput(ver, n, first, damage) :
            ver \in Versions, n \in 1..MaxBeatmaps,
            first \in 1..MaxTemplates, damage \in Damages}

NoInput == [ver |-> 0, n |-> 0, first |-> 1, damage |-> <<"none", 0>>, data |-> <<>>]

\* str(pickle.dumps(v)): a text that determines v
Pickled(v) == [pickle |-> v]
\* sqlite stores a Python bool as the integer 0 or 1
SqlBool(b) == IF b THEN 1 ELSE 0

\* the row of the INSERT of add_beatmap_to_db
InsertRow(beatmap) ==
    [artist |-> beatmap.artist, artist_unicode |-> beatmap.artist_unicode,
     title |-> beatmap.title, title_unicode |-> beatmap.title_unicode,
     mapper |-> beatmap.mapper, difficulty |-> beatmap.difficulty,
     audio_file |-> beatmap.audio_file, md5_hash |-> beatmap.md5_hash,
     osu_file |-> beatmap.osu_file,
     ranked_status |-> Pickled(beatmap.ranked_status),
     count_hitcircles |-> beatmap.count_hitcircles, count_sliders |-> beatmap.count_sliders,
     count_spinners |-> beatmap.count_spinners,
     last_modification |-> Pickled(beatmap.last_modification),
     ar |-> beatmap.ar, cs |-> beatmap.cs, hp |-> beatmap.hp, od |-> beatmap.od,
     slider_velocity |-> beatmap.slider_velocity,
     std_pairs |-> Pickled(beatmap.std_pairs), taiko_pairs |-> Pickled(beatmap.taiko_pairs),
     ctb_pairs |-> Pickled(beatmap.ctb_pairs), mania_pairs |-> Pickled(beatmap.mania_pairs),
     drain_time |-> beatmap.drain_time, total_time |-> beatmap.total_time,
     preview_time |-> beatmap.preview_time,
     timing_points |-> Pickled(beatmap.timing_points),
     difficulty_id |-> beatmap.difficulty_id, beatmap_id |-> beatmap.beatmap_id,
     thread_id |-> beatmap.thread_id,
     std_grade |-> Pickled(beatmap.std_grade), taiko_grade |-> Pickled(beatmap.taiko_grade),
     ctb_grade |-> Pickled(beatmap.ctb_grade), mania_grade |-> Pickled(beatmap.mania_grade),
     local_offset |-> beatmap.local_offset, stack_leniency |-> beatmap.stack_leniency,
     gameplay_mode |-> Pickled(beatmap.gameplay_mode),
     song_source |-> beatmap.song_source, song_tags |-> beatmap.song_tags,
     online_offset |-> beatmap.online_offset, title_font |-> beatmap.title_font,
     unplayed |-> SqlBool(beatmap.unplayed), last_played |-> Pickled(beatmap.last_played),
     is_osz2 |-> SqlBool(beatmap.is_osz2), folder_name |-> beatmap.folder_name,
     last_checked |-> Pickled(beatmap.last_checked),
     ignore_sound |-> SqlBool(beatmap.ignore_sound), ignore_skin |-> SqlBool(beatmap.ignore_skin),
     disable_storyboard |-> SqlBool(beatmap.disable_storyboard),
     disable_video |-> SqlBool(beatmap.disable_video),
     visual_override |-> SqlBool(beatmap.visual_override),
     mania_scroll_speed |-> beatmap.mania_scroll_speed]

\* A store as a caller may hand it over: a fresh file without the table, or
\* a file an earlier decode filled
OldRow == InsertRow(SampleBeatmap(9, 20191106))
InitialStores == {[table |-> FALSE, rows |-> <<>>], [table |-> TRUE, rows |-> <<OldRow>>]}

\* generate_sql_db without its DROP TABLE (CREATE TABLE IF NOT EXISTS)
generate_sql_db_keeping(db) == [table |-> TRUE, rows |-> db.rows]

\* _Parser.generate_sql_db: DROP TABLE when the table exists, then CREATE
\* TABLE.  Neither statement opens a transaction: both are durable at once.
generate_sql_db(db) ==
    LET dropped == IF db.table THEN [table |-> FALSE, rows |-> <<>>] ELSE db
    IN  [table |-> TRUE, rows |-> dropped.rows]

\* a connection that goes away without commit keeps what it inserted
rollback_keeping(db, rows) == [table |-> db.table, rows |-> db.rows \o rows]

\* The connection of parse_osudb goes away without commit when parse raises:
\* the rows of its open transaction never reach the file.
rollback(db, rows) == db

\* _Parser.add_beatmap_to_db: the INSERT joins the connection's open
\* transaction
add_beatmap_to_db(rows, beatmap) == Append(rows, InsertRow(beatmap))

\* connection.commit(): the transaction's rows become the file's
commit(db, rows) == [table |-> db.table, rows |-> db.rows \o rows]

\* the columns add_beatmap_to_db fills with str(pickle.dumps(value))
PickledColumns ==
    {"ranked_status", "last_modification", "std_pairs", "taiko_pairs", "ctb_pairs",
     "mania_pairs", "timing_points", "std_grade", "taiko_grade", "ctb_grade", "mania_grade",
     "gameplay_mode", "last_played", "last_checked"}

\* the columns add_beatmap_to_db fills with the text of the record as it is
TextColumns ==
    <<"artist", "artist_unicode", "title", "title_unicode", "mapper", "difficulty",
      "audio_file", "md5_hash", "osu_file", "song_source", "song_tags", "title_font",
      "folder_name">>

\* arg[:2] == "b'" or arg[:2] == 'b"'
LooksPickled(text) == Len(text) >= 2 /\ text[1] = 98 /\ text[2] \in {39, 34}

\* the text is a bytes literal: closed by the quote that opens it, with no
\* such quote and no backslash in between
IsBytesLiteral(text) ==
    /\ Len(text) >= 3
    /\ text[Len(text)] = text[2]
    /\ \A i \in 3..(Len(text) - 1) : text[i] \notin {text[2], 92}

\* pickle.loads(bytearray(eval(arg))) on a text of the record that is no
\* pickle: eval fails on what is no literal, pickle.loads on the bytes of
\* what is one
UnpickledText(text) ==
    IF IsBytesLiteral(text) THEN Raise("UnpicklingError", 0) ELSE Raise("SyntaxError", 0)

\* the first text column, in the order of the arguments, that starts like
\* the text of a pickle; 0 when none does
FirstLooksPickled(row) ==
    IF \E i \in 1..Len(TextColumns) : LooksPickled(row[TextColumns[i]])
    THEN CHOOSE i \in 1..Len(TextColumns) :
            /\ LooksPickled(row[TextColumns[i]])
            /\ \A j \in 1..(i - 1) : ~LooksPickled(row[TextColumns[j]])
    ELSE 0

\* _Parser.beatmap_from_sql(*row): every column holding text that starts
\* with b' or b" is evaluated and unpickled, every other column is passed
\* on as the store returns it; the columns are in the order of the fields
\* of Beatmap
beatmap_from_sql(row) ==
    IF FirstLooksPickled(row) # 0 THEN UnpickledText(row[TextColumns[FirstLooksPickled(row)]])
    ELSE Ok([f \in DOMAIN row |-> IF f \in PickledColumns THEN row[f].pickle ELSE row[f]], 0)

\* the WHERE clause md5_hash='<hash>' as sqlite reads it.  A string
\* literal ends at the first quote that no second quote follows; two
\* quotes in a row stand for one.
RECURSIVE LiteralEnd(_, _)
LiteralEnd(text, i) ==
    IF i > Len(text) THEN Len(text) + 1
    ELSE IF text[i] # 39 THEN LiteralEnd(text, i + 1)
    ELSE IF i < Len(text) /\ text[i + 1] = 39 THEN LiteralEnd(text, i + 2)
    ELSE i

RECURSIVE Unquoted(_)
Unquoted(text) ==
    IF text = <<>> THEN <<>>
    ELSE IF text[1] = 39 THEN <<39>> \o Unquoted(SubSeq(text, 3, Len(text)))
    ELSE <<text[1]>> \o Unquoted(Tail(text))

RECURSIVE SkipSpaces(_)
SkipSpaces(text) == IF text # <<>> /\ text[1] = 32 THEN SkipSpaces(Tail(text)) ELSE text

HasPrefix(text, prefix) == Len(text) >= Len(prefix) /\ SubSeq(text, 1, Len(prefix)) = prefix

\* nothing but a comment is left of the statement
EndsStatement(text) == SkipSpaces(text) = <<>> \/ HasPrefix(SkipSpaces(text), <<45, 45>>)

\* the text after the literal that starts at `from`
AfterLiteral(text, from) == SubSeq(text, LiteralEnd(text, from) + 1, Len(text))
LiteralAt(text, from) == Unquoted(SubSeq(text, from, LiteralEnd(text, from) - 1))

\* OR '<a>'='<b>' after the first comparison: the rows selected when the
\* text reads so, an error of the syntax otherwise
OrClause(rows, matched, text) ==
    IF text = <<>> \/ text[1] # 39 \/ LiteralEnd(text, 2) > Len(text) THEN Raise("sqlite3.OperationalError", 0)
    ELSE IF ~HasPrefix(AfterLiteral(text, 2), <<61, 39>>)
            \/ LiteralEnd(AfterLiteral(text, 2), 3) > Len(AfterLiteral(text, 2))
            \/ ~EndsStatement(AfterLiteral(AfterLiteral(text, 2), 3))
    THEN Raise("sqlite3.OperationalError", 0)
    ELSE IF LiteralAt(text, 2) = LiteralAt(AfterLiteral(text, 2), 3) THEN Ok(rows, 0)
    ELSE Ok(matched, 0)

\* what follows the first comparison
RestOfStatement(rows, matched, rest) ==
    IF EndsStatement(rest) THEN Ok(matched, 0)
    ELSE IF rest[1] = 59
    THEN (IF EndsStatement(Tail(rest)) THEN Ok(matched, 0) ELSE Raise("sqlite3.ProgrammingError", 0))
    ELSE IF HasPrefix(rest, <<79, 82>>) THEN OrClause(rows, matched, SkipSpaces(SubSeq(rest, 3, Len(rest))))
    ELSE Raise("sqlite3.OperationalError", 0)

\* cursor.execute("SELECT * FROM 'beatmaps' WHERE md5_hash='<hash>'") for
\* a hash without quote characters: the rows with that hash, in the order
\* of their insertion
SelectByHash(rows, hash) == SelectSeq(rows, LAMBDA row : row.md5_hash = hash)

\* cursor.execute(f"SELECT * FROM 'beatmaps' WHERE md5_hash='{hash}'"):
\* text is the hash with the closing quote of the statement after it
Execute(rows, text) ==
    IF LiteralEnd(text, 1) > Len(text) THEN Raise("sqlite3.OperationalError", 0)
    ELSE RestOfStatement(rows, SelectByHash(rows, LiteralAt(text, 1)),
                         SkipSpaces(AfterLiteral(text, 1)))

\* beatmap_from_sql(*fetchone()): fetchone() is None when no row was
\* selected, and None cannot be unpacked into arguments
FromFetchone(selected) ==
    IF selected = <<>> THEN Raise("TypeError", 0)
    ELSE beatmap_from_sql(selected[1])

\* Osudb.get_beatmap_from_hash(hash) on a connection that sees the store db
get_beatmap_from_hash(db, hash) ==
    IF ~db.table THEN Raise("sqlite3.OperationalError", 0)
    ELSE Bind(Execute(db.rows, hash \o <<39>>), LAMBDA selected : FromFetchone(selected.val))

\* Osudb.beatmaps(): Beatmap.from_sql(*row) for every row of the table;
\* the Beatmap of db/datatypes.py has no from_sql
Osudb_beatmaps(db) ==
    IF ~db.table THEN Raise("sqlite3.OperationalError", 0)
    ELSE IF db.rows = <<>> THEN Ok(<<>>, 0)
    ELSE Raise("AttributeError", 0)

\* parse taking its second 4-byte field for the record count
HeaderStmtsCountSecond ==
    <<Stmt("game_version", "uint"), Stmt("count_beatmaps", "uint"),
      Stmt("account_unlocked", "bool"), Stmt("unlock_datetime", "datetime"),
      Stmt("username", "string"), Stmt("ignore_folder_count", "uint")>>

\* the reads of _Parser.parse before the beatmap loop
HeaderStmts ==
    <<Stmt("game_version", "uint"), Stmt("ignore_folder_count", "uint"),
      Stmt("account_unlocked", "bool"), Stmt("unlock_datetime", "datetime"),
      Stmt("username", "string"), Stmt("count_beatmaps", "uint")>>

NoLocals == [game_version |-> 0, count_beatmaps |-> 0]

NoError == [type |-> "", in |-> ""]

Osudb(l, user_permissions) ==
    [game_version |-> l.game_version, account_unlocked |-> l.account_unlocked,
     unlock_datetime |-> l.unlock_datetime, username |-> l.username,
     sql_beatmaps_db |-> "beatmaps_db", user_permissions |-> user_permissions]

OsuInit ==
    /\ osu_db_file = [data |-> <<>>, pos |-> 0]
    /\ input = NoInput
    /\ skip_beatmaps = FALSE
    /\ pc = "idle"
    /\ locals = NoLocals
    /\ parsed = 0
    /\ rec_log = <<>>
    /\ db_file \in InitialStores
    /\ pending = <<>>
    /\ result = None
    /\ error = NoError
    /\ calls = 0
    /\ store_at_call = db_file

\* the state parse_osudb is in once the header reads h have run
HeaderDone(h, in, skip) ==
    /\ osu_db_file' = [data |-> in.data, pos |-> h.pos]
    /\ input' = [in EXCEPT !.data = <<>>]
    /\ skip_beatmaps' = skip
    /\ calls' = calls + 1
    /\ store_at_call' = db_file
    /\ parsed' = 0
    /\ rec_log' = <<>>
    /\ result' = None
    /\ pending' = <<>>
    /\ pc' = IF h.ok THEN "beatmaps" ELSE "raised"
    /\ error' = IF h.ok THEN NoError ELSE [type |-> h.err, in |-> "header"]
    /\ locals' = IF h.ok THEN h.env ELSE NoLocals
    /\ db_file' = IF h.ok /\ ~skip THEN generate_sql_db(db_file) ELSE db_file

\* each input with the outcome of the header reads of _Parser.parse on it
OsuCalls ==
    {[in |-> in, h |-> RunStmts(in.data, 0, HeaderStmts, 1, NoLocals, <<>>)] : in \in OsuInputs}

\* parse_osudb(file, beatmaps_db, skip): connect, then _Parser.parse up to
\* the beatmap loop: the header reads, and generate_sql_db unless skipping
ParseOsudbOn(given) ==
    /\ pc \in {"idle", "done", "raised"}
    /\ calls < MaxCalls
    /\ \E c \in given, skip \in BOOLEAN : HeaderDone(c.h, c.in, skip)

ParseOsudb == ParseOsudbOn(OsuCalls) /\ UNCHANGED codec_vars

\* The exception leaves parse and parse_osudb: nothing is returned, and the
\* connection goes away with its transaction uncommitted.
Raised(r, part, db) ==
    /\ pc' = "raised"
    /\ error' = [type |-> r.err, in |-> part]
    /\ osu_db_file' = [osu_db_file EXCEPT !.pos = r.pos]
    /\ db_file' = rollback(db, pending)
    /\ pending' = <<>>
    /\ result' = None

Decoded(r) ==
    /\ osu_db_file' = [osu_db_file EXCEPT !.pos = r.pos]
    /\ parsed' = parsed + 1
    /\ rec_log' = Append(rec_log, [start |-> osu_db_file.pos, end |-> r.pos,
                                   log |-> r.log, val |-> r.val])
    /\ UNCHANGED <<pc, error, db_file, result>>

\* a skipping iteration that stores the record all the same
SkippedStepStoring(r) ==
    IF r.ok THEN Decoded(r) /\ pending' = add_beatmap_to_db(pending, r.val)
    ELSE Raised(r, "beatmap", db_file) /\ UNCHANGED <<parsed, rec_log>>

\* one iteration of the loop of the skip_beatmaps branch
SkippedStep(r) ==
    IF r.ok THEN Decoded(r) /\ pending' = pending
    ELSE Raised(r, "beatmap", db_file) /\ UNCHANGED <<parsed, rec_log>>

ParseBeatmapSkipped ==
    /\ pc = "beatmaps" /\ skip_beatmaps /\ parsed < locals.count_beatmaps
    /\ SkippedStep(parse_beatmap(osu_db_file.data, osu_db_file.pos, locals.game_version))
    /\ UNCHANGED <<input, skip_beatmaps, locals, calls, store_at_call, codec_vars>>

\* one iteration of the loop of the storing branch:
\* self.add_beatmap_to_db(self.parse_beatmap(game_version))
StoredStep(r) ==
    IF r.ok THEN Decoded(r) /\ pending' = add_beatmap_to_db(pending, r.val)
    ELSE Raised(r, "beatmap", db_file) /\ UNCHANGED <<parsed, rec_log>>

ParseBeatmapStored ==
    /\ pc = "beatmaps" /\ ~skip_beatmaps /\ parsed < locals.count_beatmaps
    /\ StoredStep(parse_beatmap(osu_db_file.data, osu_db_file.pos, locals.game_version))
    /\ UNCHANGED <<input, skip_beatmaps, locals, calls, store_at_call, codec_vars>>

\* user_permissions = UserPermissions(read_uint(...)); return Osudb(...),
\* db being the file after the commit of the storing branch
ReturnOsudb(p, db) ==
    IF p.ok
    THEN /\ pc' = "done"
         /\ osu_db_file' = [osu_db_file EXCEPT !.pos = p.pos]
         /\ db_file' = db
         /\ pending' = IF skip_beatmaps THEN pending ELSE <<>>
         /\ result' = Osudb(locals, UserPermissions(p.val))
         /\ error' = error
    ELSE Raised(p, "permissions", db)

\* after the loop: commit (storing branch only), read the user permissions,
\* return the Osudb
ParseReturn ==
    /\ pc = "beatmaps" /\ parsed = locals.count_beatmaps
    /\ ReturnOsudb(read_uint(osu_db_file.data, osu_db_file.pos),
                   IF skip_beatmaps THEN db_file ELSE commit(db_file, pending))
    /\ UNCHANGED <<input, skip_beatmaps, locals, parsed, rec_log, calls, store_at_call,
                   codec_vars>>

\* ---------------------------------------------------------------------
\* collection.db (db/collection.py)
\* ---------------------------------------------------------------------
Collection(name, count_beatmaps, beatmaps_hash) ==
    [name |-> name, count_beatmaps |-> count_beatmaps, beatmaps_hash |-> beatmaps_hash]

Collectiondb(version, count_collections, collections) ==
    [version |-> version, count_collections |-> count_collections,
     collections |-> collections]

\* _Parser.parse_collection
parse_collection(data, pos, game_ver) ==
    Bind(read_string(data, pos), LAMBDA name :
    Bind(read_uint(data, name.pos), LAMBDA count_beatmaps :
    Bind(ReadItems("string", data, count_beatmaps.pos, count_beatmaps.val, <<>>),
         LAMBDA beatmaps_hash :
    Ok(Collection(name.val, count_beatmaps.val, beatmaps_hash.val), beatmaps_hash.pos))))

\* a loop that ends at the first collection it cannot decode
RECURSIVE CollectionsUntilError(_, _, _, _, _)
CollectionsUntilError(data, pos, version, n, acc) ==
    IF n = 0 \/ ~parse_collection(data, pos, version).ok THEN Ok(acc, pos)
    ELSE CollectionsUntilError(data, parse_collection(data, pos, version).pos, version, n - 1,
                               Append(acc, parse_collection(data, pos, version).val))

\* for _ in range(count_collections): collections.append(self.parse_collection(version))
RECURSIVE Collections(_, _, _, _, _)
Collections(data, pos, version, n, acc) ==
    IF n = 0 THEN Ok(acc, pos)
    ELSE Bind(parse_collection(data, pos, version), LAMBDA c :
              Collections(data, c.pos, version, n - 1, Append(acc, c.val)))

\* parse_collectiondb(file): _Parser(file).parse() on a stream at its start
parse_collectiondb(data) ==
    Bind(read_uint(data, 0), LAMBDA version :
    Bind(read_uint(data, version.pos), LAMBDA count_collections :
    Bind(Collections(data, count_collections.pos, version.val, count_collections.val, <<>>),
         LAMBDA collections :
    Ok(Collectiondb(version.val, count_collections.val, collections.val), collections.pos))))

\* ---------------------------------------------------------------------
\* scores.db (db/scores.py)
\* ---------------------------------------------------------------------
\* _Parser.parse_score: the reads before the test of the mods
ScoreStmts ==
    <<Stmt("gamemode", "GameMode"), Stmt("score_version", "uint"),
      Stmt("beatmap_hash", "string"), Stmt("username", "string"), Stmt("replay_hash", "string"),
      Stmt("count_300", "ushort"), Stmt("count_100", "ushort"), Stmt("count_50", "ushort"),
      Stmt("count_geki", "ushort"), Stmt("count_katu", "ushort"), Stmt("count_miss", "ushort"),
      Stmt("total_score", "uint"), Stmt("max_combo", "ushort"), Stmt("perfect_combo", "bool"),
      Stmt("mods", "Mod"),
      Stmt("ignore_empty", "string"), Stmt("timestamp", "datetime"),
      Stmt("ignore_minus_one", "uint"), Stmt("online_score_id", "ulong")>>

\* additional_info = None
ScoreLocals == [additional_info |-> None]

\* Mod(1 << 23) in mods
HasBit23(mods) == (mods.value \div Pow2(23)) % 2 = 1

\* a decoder that reads the extra field whatever the mods are
AdditionalInfoAlways(data, run) ==
    IF run.ok
    THEN RunStmts(data, run.pos, <<Stmt("additional_info", "double")>>, 1, run.env, run.log)
    ELSE run

\* if Mod(1 << 23) in mods: additional_info = read_double(...)
AdditionalInfo(data, run) ==
    IF run.ok /\ HasBit23(run.env.mods)
    THEN RunStmts(data, run.pos, <<Stmt("additional_info", "double")>>, 1, run.env, run.log)
    ELSE run

\* Score(gamemode, ..., perfect_combo, timestamp, online_score_id,
\* additional_info): seventeen positional arguments for the dataclass fields
\* gamemode ... perfect_combo, mods, timestamp, online_score_id,
\* additional_info (default 0)
Score(e) ==
    [gamemode |-> e.gamemode, score_version |-> e.score_version,
     beatmap_hash |-> e.beatmap_hash, username |-> e.username, replay_hash |-> e.replay_hash,
     count_300 |-> e.count_300, count_100 |-> e.count_100, count_50 |-> e.count_50,
     count_geki |-> e.count_geki, count_katu |-> e.count_katu, count_miss |-> e.count_miss,
     total_score |-> e.total_score, max_combo |-> e.max_combo,
     perfect_combo |-> e.perfect_combo,
     mods |-> e.timestamp, timestamp |-> e.online_score_id,
     online_score_id |-> e.additional_info, additional_info |-> 0]

ReturnScore(run) ==
    IF run.ok THEN Ok(Score(run.env), run.pos) ELSE Raise(run.err, run.pos)

parse_score(data, pos, game_ver) ==
    ReturnScore(AdditionalInfo(data, RunStmts(data, pos, ScoreStmts, 1, ScoreLocals, <<>>)))

\* for _ in range(count_scores): scores.append(self.parse_score(game_ver))
RECURSIVE Scores(_, _, _, _, _)
Scores(data, pos, game_ver, n, acc) ==
    IF n = 0 THEN Ok(acc, pos)
    ELSE Bind(parse_score(data, pos, game_ver), LAMBDA sc :
              Scores(data, sc.pos, game_ver, n - 1, Append(acc, sc.val)))

BeatmapScores(beatmap_hash, count_scores, scores) ==
    [beatmap_hash |-> beatmap_hash, count_scores |-> count_scores, scores |-> scores]

Scoresdb(version, count_beatmaps_scores, beatmaps_scores) ==
    [version |-> version, count_beatmaps_scores |-> count_beatmaps_scores,
     beatmaps_scores |-> beatmaps_scores]

\* _Parser.parse_beatmap_scores
parse_beatmap_scores(data, pos, game_ver) ==
    Bind(read_string(data, pos), LAMBDA beatmap_hash :
    Bind(read_uint(data, beatmap_hash.pos), LAMBDA count_scores :
    Bind(Scores(data, count_scores.pos, game_ver, count_scores.val, <<>>), LAMBDA scores :
    Ok(BeatmapScores(beatmap_hash.val, count_scores.val, scores.val), scores.pos))))

\* for _ in range(count_beatmaps): beatmaps.append(self.parse_beatmap_scores(version))
RECURSIVE BeatmapsScores(_, _, _, _, _)
BeatmapsScores(data, pos, version, n, acc) ==
    IF n = 0 THEN Ok(acc, pos)
    ELSE Bind(parse_beatmap_scores(data, pos, version), LAMBDA b :
              BeatmapsScores(data, b.pos, version, n - 1, Append(acc, b.val)))

\* parse_scoresdb(file): _Parser(file).parse() on a stream at its start
parse_scoresdb(data) ==
    Bind(read_uint(data, 0), LAMBDA version :
    Bind(read_uint(data, version.pos), LAMBDA count_beatmaps :
    Bind(BeatmapsScores(data, count_beatmaps.pos, version.val, count_beatmaps.val, <<>>),
         LAMBDA beatmaps :
    Ok(Scoresdb(version.val, count_beatmaps.val, beatmaps.val), beatmaps.pos))))

\* ---------------------------------------------------------------------
\* osu!.db decoded into memory (database/osu.py): the reads of db/osu.py,
\* the records kept in a list.
\* ---------------------------------------------------------------------
\* parse_beatmap as the element of a loop: the record, or the exception
BeatmapItem(r) == IF r.ok THEN Ok(r.val, r.pos) ELSE Raise(r.err, r.pos)

\* [self.parse_beatmap(game_version) for _ in range(count_beatmaps)], and the
\* loop of the skip_beatmaps branch that drops what it decodes
RECURSIVE Beatmaps(_, _, _, _, _)
Beatmaps(data, pos, game_version, n, acc) ==
    IF n = 0 THEN Ok(acc, pos)
    ELSE Bind(BeatmapItem(parse_beatmap(data, pos, game_version)), LAMBDA b :
              Beatmaps(data, b.pos, game_version, n - 1, Append(acc, b.val)))

OsudbOfData(l, beatmaps, user_permissions) ==
    [game_version |-> l.game_version, account_unlocked |-> l.account_unlocked,
     unlock_datetime |-> l.unlock_datetime, username |-> l.username,
     beatmaps |-> beatmaps, user_permissions |-> user_permissions]

\* the rest of _Parser.parse once the header reads h have run.  The
\* skip_beatmaps branch never binds `beatmaps`, which the return statement
\* names: UnboundLocalError.
ParseAfterHeader(data, skip, h) ==
    IF ~h.ok THEN Raise(h.err, h.pos)
    ELSE Bind(Beatmaps(data, h.pos, h.env.game_version, h.env.count_beatmaps, <<>>),
              LAMBDA beatmaps :
         Bind(read_uint(data, beatmaps.pos), LAMBDA user_permissions :
         IF skip THEN Raise("UnboundLocalError", user_permissions.pos)
         ELSE Ok(OsudbOfData(h.env, beatmaps.val, UserPermissions(user_permissions.val)),
                 user_permissions.pos)))

\* Osudb.from_data(data, skip_beatmaps): _Parser(data).parse(skip_beatmaps)
from_data(data, skip) ==
    ParseAfterHeader(data, skip, RunStmts(data, 0, HeaderStmts, 1, NoLocals, <<>>))

\* ---------------------------------------------------------------------
\* The decoders applied to single streams: the primitives at the cursor of
\* a stream, the record and file decoders on a stream at its start.
\* ---------------------------------------------------------------------
MaxReads == 2
MaxRecords == 2

\* where a stream comes from: its kind, and the numbers it was built from
Src(kind, n, v, cut, declared) ==
    [kind |-> kind, n |-> n, v |-> v, cut |-> cut, declared |-> declared]

NoSrc == Src("none", 0, 0, 0, 0)

Stream(data, src) == [data |-> data, src |-> src]

\* data without its last cut bytes
CutOff(data, cut) ==
    IF cut >= Len(data) THEN <<>> ELSE SubSeq(data, 1, Len(data) - cut)

Bytes17 == <<1, 0, 200, 3, 128, 5, 11, 2, 255, 97, 0, 11, 1, 65, 7, 64, 9>>

ByteStreams ==
    {Stream(SubSeq(Bytes17, 1, n), Src("bytes", n, 0, 0, 0)) : n \in 0..Len(Bytes17)}

\* payload lengths at the one-, two- and three-byte ULEB128 boundaries
StringLengths == {0, 1, 127, 128, 16384}

\* a text of n UTF-8 bytes: all ASCII (v = 0), or with a two-byte first
\* character (v = 1); a text of 2-, 3- and 4-byte characters (v = 2)
StringText(n, v) ==
    CASE v = 0 -> [i \in 1..n |-> 97]
      [] v = 1 -> <<233>> \o [i \in 1..(n - 2) |-> 97]
      [] v = 2 -> <<233, 8364, 128512>>

StringShapes ==
    {<<n, 0>> : n \in StringLengths} \cup {<<2, 1>>, <<30, 1>>, <<9, 2>>}

\* 0x0b, ULEB128(n), n payload bytes; one more byte follows in the stream
StringStreams ==
    {Stream(EncString(StringText(sh[1], sh[2])) \o <<7>>, Src("string", sh[1], sh[2], 0, 0)) :
        sh \in StringShapes}

MarkerData == <<<<0>>, <<0, 97>>, <<12, 1, 97>>, <<10, 3>>, <<255, 11, 0>>>>

MarkerStreams ==
    {Stream(MarkerData[n], Src("marker", n, 0, 0, 0)) : n \in 1..Len(MarkerData)}

\* strings that end early, and payloads that are no UTF-8
BadStringData ==
    <<<<11>>, <<11, 128>>, <<11, 3, 97, 98>>, <<11, 1, 255>>, <<11, 2, 233, 97>>,
      CutOff(EncString(StringText(128, 0)), 1)>>

BadStringStreams ==
    {Stream(BadStringData[n], Src("badstring", n, 0, 0, 0)) : n \in 1..Len(BadStringData)}

\* tick counts: 0, 1, one below 1970-01-01, 1970-01-01 and 1, 5, 6, 15, 25
\* ticks and one second after it, 0x3030303030303030, 2^63 and 2^64 - 1
TickSamples ==
    <<<<0, 0, 0, 0>>, <<1, 0, 0, 0>>, <<32767, 63413, 32757, 2207>>,
      <<32768, 63413, 32757, 2207>>, <<32769, 63413, 32757, 2207>>,
      <<32773, 63413, 32757, 2207>>, <<32774, 63413, 32757, 2207>>,
      <<32783, 63413, 32757, 2207>>, <<32793, 63413, 32757, 2207>>,
      <<5760, 63566, 32757, 2207>>,
      <<12336, 12336, 12336, 12336>>, <<0, 0, 0, 32768>>, <<65535, 65535, 65535, 65535>>>>

TickStreams ==
    {Stream(EncU64(TickSamples[n]), Src("ticks", n, 0, 0, 0)) : n \in 1..Len(TickSamples)}

StreamVersions == <<20140608, 20191106>>

\* what may have happened to a stream of n records: nothing, bytes cut
\* off its end, or a header that declares one record more
Damaged(n, cuts) == {<<0, n>>, <<0, n + 1>>} \cup {<<c, n>> : c \in cuts}

RecordStreams ==
    {Stream(CutOff(EncBeatmap(SampleBeatmap(1, StreamVersions[v]), StreamVersions[v]), cut),
            Src("record", 1, v, cut, 1)) :
        v \in 1..Len(StreamVersions), cut \in {0, 1, 100}}

\* an osu!.db stream of n sample records under a header that declares some
OsuStream(ver, n, declared) ==
    OsuHeader(ver, UserName, declared)
    \o Concat([k \in 1..n |-> EncBeatmap(SampleBeatmap(SampleAt(1, k), ver), ver)])
    \o EncU32(1)

OsuStreamsOf(v, n) ==
    {Stream(CutOff(OsuStream(StreamVersions[v], n, d[2]), d[1]), Src("osu", n, v, d[1], d[2])) :
        d \in Damaged(n, {1, 60})}

OsuStreams == UNION {OsuStreamsOf(v, n) : v \in 1..Len(StreamVersions), n \in 0..MaxRecords}

\* the k-th sample collection, of k - 1 hashes
SampleCollection(k) ==
    Collection(<<67, 48 + k>>, k - 1, [i \in 1..(k - 1) |-> <<104, 48 + k, 48 + i>>])

EncCollection(c) ==
    EncStr(c.name) \o EncU32(c.count_beatmaps)
    \o Concat([i \in 1..Len(c.beatmaps_hash) |-> EncStr(c.beatmaps_hash[i])])

CollectionStream(n, declared) ==
    EncU32(20191106) \o EncU32(declared)
    \o Concat([k \in 1..n |-> EncCollection(SampleCollection(k))])

CollectionStreamsOf(n) ==
    {Stream(CutOff(CollectionStream(n, d[2]), d[1]), Src("collection", n, 0, d[1], d[2])) :
        d \in Damaged(n, {1, 3})}

CollectionStreams == UNION {CollectionStreamsOf(n) : n \in 0..MaxRecords}

\* the j-th sample score as it stands in a stream; every other one has
\* bit 23 among its mods and the 8 bytes that follow the score for it
SampleScore(j) ==
    [gamemode |-> j % 4, score_version |-> 20191106,
     beatmap_hash |-> <<98, 48 + j>>, username |-> <<79, 108, 101, 103>>,
     replay_hash |-> <<114, 48 + j>>,
     count_300 |-> 300 + j, count_100 |-> j, count_50 |-> 0,
     count_geki |-> 1, count_katu |-> 2, count_miss |-> 3,
     total_score |-> 1000 * j, max_combo |-> 400 + j, perfect_combo |-> (j % 2 = 0),
     mods |-> 64 + (j % 2) * Pow2(23),
     timestamp |-> TicksOfMicros(j), online_score_id |-> <<j, 0, 0, 0>>,
     additional_info |-> F64(j)]

EncScore(w) ==
    <<w.gamemode>> \o EncU32(w.score_version)
    \o EncStr(w.beatmap_hash) \o EncStr(w.username) \o EncStr(w.replay_hash)
    \o EncU16(w.count_300) \o EncU16(w.count_100) \o EncU16(w.count_50)
    \o EncU16(w.count_geki) \o EncU16(w.count_katu) \o EncU16(w.count_miss)
    \o EncU32(w.total_score) \o EncU16(w.max_combo) \o EncBool(w.perfect_combo)
    \o EncU32(w.mods) \o EncStr(<<>>) \o EncU64(w.timestamp)
    \o <<255, 255, 255, 255>> \o EncU64(w.online_score_id)
    \o (IF (w.mods \div Pow2(23)) % 2 = 1 THEN EncBits(w.additional_info) ELSE <<>>)

\* the k-th sample group: k - 1 scores, the scores k + 1 .. 2k - 1
SampleScoresHash(k) == <<104, 48 + k>>
SampleScoresOf(k) == [i \in 1..(k - 1) |-> SampleScore(k + i)]

EncBeatmapScores(k) ==
    EncStr(SampleScoresHash(k)) \o EncU32(k - 1)
    \o Concat([i \in 1..(k - 1) |-> EncScore(SampleScoresOf(k)[i])])

ScoresStream(n, declared) ==
    EncU32(20191106) \o EncU32(declared) \o Concat([k \in 1..n |-> EncBeatmapScores(k)])

ScoresStreamsOf(n) ==
    {Stream(CutOff(ScoresStream(n, d[2]), d[1]), Src("scores", n, 0, d[1], d[2])) :
        d \in Damaged(n, {1, 3})}

ScoresStreams == UNION {ScoresStreamsOf(n) : n \in 0..MaxRecords}

MaxScores == 2

\* the i-th score of a list whose first score is sample `first`
ScoreAt(first, i) == SampleScore(first + i - 1)

\* the bytes of a score whose mods have bit 23 set, its extra field left out
EncScoreOmitting(w) == SubSeq(EncScore(w), 1, Len(EncScore(w)) - 8)

ScoreListHash == <<104, 49>>
ScoreListHeader(m) ==
    EncU32(20191106) \o EncU32(1) \o EncStr(ScoreListHash) \o EncU32(m)

\* a scores.db of one group of m scores; omit names the score written
\* without its extra field (0: none)
ScoreListStream(m, first, omit) ==
    ScoreListHeader(m)
    \o Concat([i \in 1..m |-> IF i = omit THEN EncScoreOmitting(ScoreAt(first, i))
                              ELSE EncScore(ScoreAt(first, i))])

ScoreListSrc(m, first, omit) ==
    [kind |-> "score_list", n |-> m, v |-> first, cut |-> 0, declared |-> m, omit |-> omit]

ScoreListStreams ==
    {Stream(ScoreListStream(d[1], d[2], d[3]), ScoreListSrc(d[1], d[2], d[3])) :
        d \in {e \in (1..MaxScores) \X (1..2) \X (0..MaxScores) :
                 /\ e[3] <= e[1]
                 /\ e[3] > 0 => (ScoreAt(e[2], e[3]).mods \div Pow2(23)) % 2 = 1}}

\* a byte of a record that names a member of an enumeration, and a value
\* that is no member of it
EnumCases ==
    {<<"ranked_status", 8>>, <<"ranked_status", 255>>, <<"gameplay_mode", 4>>,
     <<"std_grade", 8>>, <<"taiko_grade", 10>>, <<"ctb_grade", 255>>, <<"mania_grade", 8>>}

\* the record b with one such byte
WithByte(b, field, value) ==
    IF field \in {"ranked_status", "gameplay_mode"} THEN [b EXCEPT ![field].value = value]
    ELSE [b EXCEPT ![field] = value]

\* an osu!.db of two records, the at-th of them with the byte of case c
EnumStream(ver, at, c) ==
    OsuHeader(ver, UserName, 2)
    \o Concat([k \in 1..2 |->
                 EncBeatmap(IF k = at THEN WithByte(SampleBeatmap(k, ver), c[1], c[2])
                            ELSE SampleBeatmap(k, ver), ver)])
    \o EncU32(1)

EnumSrc(v, at, c) ==
    [kind |-> "osu_enum", n |-> 2, v |-> v, cut |-> 0, declared |-> 2,
     at |-> at, field |-> c[1], value |-> c[2]]

EnumStreams ==
    {Stream(EnumStream(StreamVersions[v], at, c), EnumSrc(v, at, c)) :
        v \in 1..Len(StreamVersions), at \in 1..2, c \in EnumCases}

Streams ==
    ByteStreams \cup StringStreams \cup MarkerStreams \cup BadStringStreams \cup TickStreams
    \cup RecordStreams \cup OsuStreams \cup CollectionStreams \cup ScoresStreams
    \cup ScoreListStreams \cup EnumStreams

\* One decoder applied at the cursor: the cursor moves past what the
\* decoder read, whether it returned or raised.
Apply(op, r) ==
    /\ last' = [op |-> op, at |-> buffer.pos, res |-> r]
    /\ buffer' = [buffer EXCEPT !.pos = r.pos]
    /\ reads' = reads + 1
    /\ UNCHANGED osu_vars

ReadBool ==
    /\ reads < MaxReads
    /\ Apply("read_bool", read_bool(buffer.data, buffer.pos))
ReadUbyte ==
    /\ reads < MaxReads
    /\ Apply("read_ubyte", read_ubyte(buffer.data, buffer.pos))
ReadUshort ==
    /\ reads < MaxReads
    /\ Apply("read_ushort", read_ushort(buffer.data, buffer.pos))
ReadUint ==
    /\ reads < MaxReads
    /\ Apply("read_uint", read_uint(buffer.data, buffer.pos))
ReadFloat ==
    /\ reads < MaxReads
    /\ Apply("read_float", read_float(buffer.data, buffer.pos))
ReadDouble ==
    /\ reads < MaxReads
    /\ Apply("read_double", read_double(buffer.data, buffer.pos))
ReadUlong ==
    /\ reads < MaxReads
    /\ Apply("read_ulong", read_ulong(buffer.data, buffer.pos))
ReadIntDouble ==
    /\ reads < MaxReads
    /\ Apply("read_int_double", read_int_double(buffer.data, buffer.pos))
ReadTimingPoint ==
    /\ reads < MaxReads
    /\ Apply("read_timing_point", read_timing_point(buffer.data, buffer.pos))
ReadString ==
    /\ reads < MaxReads
    /\ Apply("read_string", read_string(buffer.data, buffer.pos))
ReadDatetime ==
    /\ reads < MaxReads
    /\ Apply("read_datetime", read_datetime(buffer.data, buffer.pos))

\* _Parser(stream).parse_beatmap(game_ver) on a stream that holds a record
ParseBeatmap ==
    /\ reads < MaxReads
    /\ buffer.src.kind = "record" /\ buffer.pos = 0
    /\ Apply("parse_beatmap",
             BeatmapItem(parse_beatmap(buffer.data, 0, StreamVersions[buffer.src.v])))

\* Osudb.from_data(data, skip_beatmaps)
FromData ==
    /\ reads < MaxReads
    /\ buffer.src.kind = "osu" /\ buffer.pos = 0
    /\ \E skip \in BOOLEAN :
         Apply(IF skip THEN "from_data_skip" ELSE "from_data", from_data(buffer.data, skip))

ParseCollectiondb ==
    /\ reads < MaxReads
    /\ buffer.src.kind = "collection" /\ buffer.pos = 0
    /\ Apply("parse_collectiondb", parse_collectiondb(buffer.data))

ParseScoresdb ==
    /\ reads < MaxReads
    /\ buffer.src.kind = "scores" /\ buffer.pos = 0
    /\ Apply("parse_scoresdb", parse_scoresdb(buffer.data))

\* parse_scoresdb on a scores.db of one group of scores
ParseScoreList ==
    /\ reads < MaxReads
    /\ buffer.src.kind = "score_list" /\ buffer.pos = 0
    /\ Apply("parse_score_list", parse_scoresdb(buffer.data))

\* Osudb.from_data on an osu!.db with a byte that is no enumeration member
FromDataEnum ==
    /\ reads < MaxReads
    /\ buffer.src.kind = "osu_enum" /\ buffer.pos = 0
    /\ Apply("from_data_enum", from_data(buffer.data, FALSE))

NoRead == [op |-> "none", at |-> 0, res |-> Ok(None, 0)]

CodecInit ==
    /\ \E st \in Streams : buffer = [data |-> st.data, pos |-> 0, src |-> st.src]
    /\ last = NoRead
    /\ reads = 0
    /\ OsuInit
    /\ db_file = [table |-> FALSE, rows |-> <<>>]

CodecNext ==
    \/ ReadBool \/ ReadUbyte \/ ReadUshort \/ ReadUint \/ ReadFloat \/ ReadDouble
    \/ ReadUlong \/ ReadIntDouble \/ ReadTimingPoint \/ ReadString \/ ReadDatetime
    \/ ParseBeatmap \/ FromData \/ ParseCollectiondb \/ ParseScoresdb \/ ParseScoreList
    \/ FromDataEnum

SpecCodec == CodecInit /\ [][CodecNext]_vars

CodecIdle ==
    /\ buffer = [data |-> <<>>, pos |-> 0, src |-> NoSrc]
    /\ last = NoRead
    /\ reads = 0

Init == OsuInit /\ CodecIdle

Next == ParseOsudb \/ ParseBeatmapSkipped \/ ParseBeatmapStored \/ ParseReturn

Spec == Init /\ [][Next]_vars

\* ---------------------------------------------------------------------
\* The store after a decode: parse_osudb, then the lookups of the Osudb
\* it returned.
\* ---------------------------------------------------------------------
\* the streams decoded here: whole, or with the last record a byte short
StoreCalls ==
    {c \in OsuCalls : /\ c.in.ver \in {20140608, 20191106}
                      /\ c.in.damage \in {<<"none", 0>>, <<"cut", 5>>}}

\* the hashes looked up: those of the sample records and of the row of an
\* earlier decode, and one no record has
StoreKeys ==
    {SampleBeatmap(k, 20191106).md5_hash : k \in 1..MaxTemplates}
    \cup {OldRow.md5_hash, <<122, 122>>}

StoreParseOsudb ==
    /\ ParseOsudbOn(StoreCalls)
    /\ last' = NoRead
    /\ UNCHANGED <<buffer, reads>>

\* osudb.get_beatmap_from_hash(hash) on the Osudb the last call returned
GetBeatmapFromHash ==
    /\ pc = "done"
    /\ \E hash \in StoreKeys :
         last' = [op |-> "get_beatmap_from_hash", at |-> 0, key |-> hash,
                  res |-> get_beatmap_from_hash(db_file, hash)]
    /\ UNCHANGED <<buffer, reads, osu_vars>>

StoreNext ==
    \/ StoreParseOsudb \/ ParseBeatmapSkipped \/ ParseBeatmapStored \/ ParseReturn
    \/ GetBeatmapFromHash

SpecStore == Init /\ [][StoreNext]_vars

\* ---------------------------------------------------------------------
\* Properties of the osu!.db decoder
\* ---------------------------------------------------------------------

\* where the stream of the running call holds its record count, and where
\* its k-th record starts (k = n + 1: where the user permissions start)
CountOffset == Len(OsuHeader(input.ver, UserName, input.n)) - 4

RECURSIVE RecordStart(_)
RecordStart(k) ==
    IF k = 1 THEN CountOffset + 4
    ELSE RecordStart(k - 1)
         + Len(EncBeatmap(SampleBeatmap(SampleAt(input.first, k - 1), input.ver), input.ver))

U32At(data, off) ==
    data[off + 1] + 256 * data[off + 2] + 65536 * data[off + 3] + 16777216 * data[off + 4]

\* a stream that nothing damaged is decoded to its end
WellFormedDecodes == (input.damage[1] = "none") => (pc # "raised")

Rep(n, x) == [i \in 1..n |-> x]

\* the documented reads of one record, each by its width or its shape
DocumentedReads(ver) ==
    (IF ver < 20191106 THEN <<"4">> ELSE <<>>)
    \o Rep(9, "string") \o <<"1">> \o Rep(3, "2") \o <<"8">> \o Rep(4, "stat") \o <<"8">>
    \o (IF ver >= 20140609 THEN Rep(4, "pairs") ELSE <<>>)
    \o Rep(3, "4") \o <<"points">> \o Rep(3, "4") \o Rep(4, "1") \o <<"2", "4", "1">>
    \o Rep(2, "string") \o <<"2", "string", "flag", "8", "flag", "string", "8">>
    \o Rep(4, "flag") \o <<"flag">>
    \o (IF ver < 20140609 THEN <<"4">> ELSE <<>>)
    \o <<"4", "1">>

\* the documented fields that the reads of fixed position fill
DocumentedNames ==
    <<"artist", "artist_unicode", "title", "title_unicode", "creator", "difficulty",
      "audio_file", "md5_hash", "osu_file", "ranked_status">>

Fits(read, shape) ==
    CASE shape = "1" -> read.size = 1 /\ read.kind \in {"ubyte", "RankedStatus", "GameMode"}
      [] shape = "2" -> read.size = 2 /\ read.kind = "ushort"
      [] shape = "4" -> read.size = 4 /\ read.kind \in {"uint", "float"}
      [] shape = "8" -> read.size = 8 /\ read.kind \in {"datetime", "double"}
      [] shape = "flag" -> read.size = 1 /\ read.kind = "bool"
      [] shape = "stat" -> read.size \in {1, 4} /\ read.kind \in {"ubyte", "float"}
      [] shape = "string" -> read.size >= 1 /\ read.kind = "string"
      [] shape = "pairs" -> read.kind = "pairs" /\ (read.size - 4) % 14 = 0
      [] shape = "points" -> read.kind = "timing_points" /\ (read.size - 4) % 17 = 0

ReadsFit(log, doc, first) ==
    /\ Len(log) = Len(doc)
    /\ \A j \in 1..Len(log) :
         /\ Fits(log[j], doc[j])
         /\ log[j].at = IF j = 1 THEN first ELSE log[j - 1].at + log[j - 1].size
    /\ \A j \in 1..Len(DocumentedNames) :
         log[j + (IF doc[1] = "4" THEN 1 ELSE 0)].name = DocumentedNames[j]

RecordInOrder(i, e) ==
    /\ ReadsFit(e.log, DocumentedReads(input.ver), e.start)
    /\ e.start = RecordStart(i)
    /\ e.end = e.log[Len(e.log)].at + e.log[Len(e.log)].size
    /\ e.end = RecordStart(i + 1)

\* C1: every decoded record was read in the documented order, read after
\* read without a gap, from the first byte of the record to the first byte
\* of the next one; and a record that nothing damaged does decode.
C1_ReadsInDocumentedOrder ==
    /\ WellFormedDecodes
    /\ \A i \in 1..Len(rec_log) : RecordInOrder(i, rec_log[i])

\* two records of each layout have been decoded, one after the other
C1_Witness ==
    /\ pc = "done" /\ parsed = 2 /\ Len(rec_log) = 2
    /\ input.ver = 20140608
    /\ rec_log[2].start = rec_log[1].end

StatReads(log) == SelectSeq(log, LAMBDA r : r.name \in {"ar", "cs", "hp", "od"})
PairReads(log) == SelectSeq(log, LAMBDA r : r.kind = "pairs")
PairLists(b) == <<b.std_pairs, b.taiko_pairs, b.ctb_pairs, b.mania_pairs>>

VersionGated(i, e) ==
    /\ Len(StatReads(e.log)) = 4
    /\ IF input.ver < 20140609
       THEN /\ \A j \in 1..4 : StatReads(e.log)[j].kind = "ubyte" /\ StatReads(e.log)[j].size = 1
            /\ PairReads(e.log) = <<>>
            /\ PairLists(e.val) = <<<<>>, <<>>, <<>>, <<>>>>
       ELSE /\ \A j \in 1..4 : StatReads(e.log)[j].kind = "float" /\ StatReads(e.log)[j].size = 4
            /\ Len(PairReads(e.log)) = 4
            /\ \A j \in 1..3 : PairReads(e.log)[j + 1].at = PairReads(e.log)[j].at + PairReads(e.log)[j].size
            /\ PairLists(e.val) = PairLists(SampleBeatmap(SampleAt(input.first, i), input.ver))

\* C2: below version 20140609 the four stats of a record are read as one
\* byte each and its four pair lists stay empty; from 20140609 on they are
\* read as 4-byte floats and four counted pair sequences follow, filling
\* std, taiko, ctb, mania in stream order.
C2_VersionGating ==
    /\ WellFormedDecodes
    /\ \A i \in 1..Len(rec_log) : VersionGated(i, rec_log[i])

\* a record of version 20140609 with distinct pair lists has been decoded
C2_Witness ==
    /\ Len(rec_log) >= 1 /\ input.ver = 20140609
    /\ rec_log[1].val.std_pairs # rec_log[1].val.taiko_pairs
    /\ rec_log[1].val.taiko_pairs # <<>>

\* the version comes first, as many records as declared are decoded, and
\* the permissions are the 4 bytes after the last record
VersionRecordsPermissions ==
    /\ pc \in {"beatmaps", "done"} => locals.game_version = U32At(osu_db_file.data, 0)
    /\ pc = "done" =>
         /\ parsed = locals.count_beatmaps
         /\ result.user_permissions.value = U32At(osu_db_file.data, osu_db_file.pos - 4)
         /\ osu_db_file.pos - 4 =
                IF parsed = 0 THEN CountOffset + 4 ELSE rec_log[parsed].end

\* C3 as stated: the record count is the second 4-byte field of the stream
\* and the first record starts at byte offset 8.
C3_CountIsSecondField ==
    /\ VersionRecordsPermissions
    /\ pc \in {"beatmaps", "done"} =>
         /\ locals.count_beatmaps = U32At(osu_db_file.data, 4)
         /\ parsed >= 1 => rec_log[1].start = 8

\* C3 amended: between the version and the record count the stream holds a
\* 4-byte folder count, the account-unlocked flag, the 8-byte unlock
\* timestamp and the user name; the record count is the 4-byte field after
\* the user name and the first record starts right after it.
C3_CountFollowsUserName ==
    /\ WellFormedDecodes
    /\ VersionRecordsPermissions
    /\ pc \in {"beatmaps", "done"} =>
         /\ CountOffset = 4 + 4 + 1 + 8 + Len(EncStr(locals.username))
         /\ locals.count_beatmaps = U32At(osu_db_file.data, CountOffset)
         /\ locals.count_beatmaps = input.n
         /\ parsed >= 1 => rec_log[1].start = CountOffset + 4

\* a whole stream of two records has been decoded
C3_Witness ==
    /\ pc = "done" /\ parsed = 2 /\ input.n = 2
    /\ result.user_permissions.value = 1
    /\ rec_log[1].start > 8

ExpectedOsudb ==
    [game_version |-> input.ver, account_unlocked |-> TRUE,
     unlock_datetime |-> DatetimeMin, username |-> UserName,
     sql_beatmaps_db |-> "beatmaps_db", user_permissions |-> UserPermissions(1)]

\* C6: a skipping parse_osudb leaves the store as the call found it, with
\* nothing inserted, dropped or committed, while it consumes every record:
\* it returns with the cursor at the end of the stream and with the header
\* fields and permissions of the stream, the ones a storing decode returns.
C6_SkipLeavesStore ==
    /\ WellFormedDecodes
    /\ skip_beatmaps => (db_file = store_at_call /\ pending = <<>>)
    /\ pc = "done" =>
         /\ parsed = input.n
         /\ osu_db_file.pos = Len(osu_db_file.data)
         /\ result = ExpectedOsudb

\* a skipping decode of two records has returned over a populated store
C6_Witness ==
    /\ pc = "done" /\ skip_beatmaps /\ parsed = 2
    /\ store_at_call.rows # <<>>
    /\ db_file.rows = store_at_call.rows

\* C7: when a storing decode fails at its k-th record, k >= 2, nothing is
\* returned and the store holds none of the k-1 records decoded before.
C7_NoPartialStore ==
    (pc = "raised" /\ ~skip_beatmaps /\ error.in = "beatmap" /\ parsed >= 1) =>
        /\ result = None
        /\ db_file.rows = <<>>
        /\ pending = <<>>

\* a storing decode has failed at its second record, on an unknown enum byte
C7_Witness ==
    /\ pc = "raised" /\ ~skip_beatmaps /\ error.in = "beatmap" /\ parsed = 1
    /\ error.type = "ValueError"
    /\ db_file.table /\ db_file.rows = <<>>

\* ---------------------------------------------------------------------
\* Properties of the decoders on single streams
\* ---------------------------------------------------------------------
Remaining == Len(buffer.data) - last.at

FileDecoders == {"from_data", "parse_collectiondb", "parse_scoresdb"}

\* the stream is not whole: bytes are cut off its end, or its header
\* declares more records than it holds
Short(src) == src.cut > 0 \/ src.declared > src.n

InOrder(op, val, src) ==
    CASE op = "parse_collectiondb" ->
            /\ val.count_collections = src.declared
            /\ Len(val.collections) = src.declared
            /\ \A k \in 1..Len(val.collections) :
                 /\ val.collections[k] = SampleCollection(k)
                 /\ Len(val.collections[k].beatmaps_hash) = val.collections[k].count_beatmaps
      [] op = "parse_scoresdb" ->
            /\ val.count_beatmaps_scores = src.declared
            /\ Len(val.beatmaps_scores) = src.declared
            /\ \A k \in 1..Len(val.beatmaps_scores) :
                 /\ val.beatmaps_scores[k].beatmap_hash = SampleScoresHash(k)
                 /\ val.beatmaps_scores[k].count_scores = k - 1
                 /\ Len(val.beatmaps_scores[k].scores) = k - 1
                 /\ \A i \in 1..(k - 1) :
                      val.beatmaps_scores[k].scores[i].total_score
                          = SampleScoresOf(k)[i].total_score
      [] op = "from_data" ->
            /\ Len(val.beatmaps) = src.declared
            /\ \A k \in 1..Len(val.beatmaps) :
                 val.beatmaps[k] = SampleBeatmap(SampleAt(1, k), StreamVersions[src.v])

\* C4: a file decoder that returns has decoded as many top-level records
\* as the header declares, in stream order, each group with as many
\* members as its own count; on a stream that is short of what its header
\* declares it raises instead of returning fewer.
C4_DeclaredCounts ==
    last.op \in FileDecoders =>
        /\ last.res.ok => InOrder(last.op, last.res.val, buffer.src)
        /\ last.res.ok = ~Short(buffer.src)

\* a scores.db of two groups, the second with a score, has been decoded
C4_Witness ==
    /\ last.op = "parse_scoresdb" /\ last.res.ok
    /\ Len(last.res.val.beatmaps_scores) = 2
    /\ Len(last.res.val.beatmaps_scores[2].scores) = 1

\* the bytes each primitive takes from the stream
FixedNeed(op) ==
    CASE op \in {"read_bool", "read_ubyte"} -> 1
      [] op = "read_ushort" -> 2
      [] op \in {"read_uint", "read_float"} -> 4
      [] op \in {"read_double", "read_ulong", "read_datetime"} -> 8
      [] op = "read_int_double" -> 14
      [] op = "read_timing_point" -> 17

\* the length bytes of the string at offset p of data: how many there are
\* (0 when the stream ends before the last of them) and the length they give
RECURSIVE LengthBytes(_, _, _)
LengthBytes(data, p, k) ==
    IF p + k > Len(data) THEN 0
    ELSE IF data[p + k] < 128 THEN k
    ELSE LengthBytes(data, p, k + 1)

RECURSIVE LengthGiven(_, _, _)
LengthGiven(data, p, k) ==
    IF k = 0 THEN 0 ELSE (data[p + 1] % 128) + 128 * LengthGiven(data, p + 1, k - 1)

\* the bytes a string at offset at of data takes; one more than there are
\* when the stream ends within its length bytes
StringNeed(data, at) ==
    IF at >= Len(data) \/ data[at + 1] # 11 THEN 1
    ELSE IF LengthBytes(data, at + 1, 1) = 0 THEN Len(data) - at + 1
    ELSE 1 + LengthBytes(data, at + 1, 1)
           + LengthGiven(data, at + 1, LengthBytes(data, at + 1, 1))

Need(op, data, at) == IF op = "read_string" THEN StringNeed(data, at) ELSE FixedNeed(op)

Primitives ==
    {"read_bool", "read_ubyte", "read_ushort", "read_uint", "read_float", "read_double",
     "read_ulong", "read_datetime", "read_int_double", "read_timing_point", "read_string"}

EndOfInput(res) == ~res.ok /\ res.err = "struct.error" /\ res.val = None

\* C8: a primitive applied where fewer bytes remain than it takes raises
\* struct.error and returns nothing; a record or file decoder applied to a
\* stream cut short raises the same error and returns no record at all.
C8_EndOfInputRaises ==
    /\ (last.op \in Primitives /\ Remaining < Need(last.op, buffer.data, last.at))
           => EndOfInput(last.res)
    /\ (last.op \in FileDecoders \cup {"parse_beatmap", "from_data_skip"} /\ Short(buffer.src))
           => EndOfInput(last.res)

\* a string whose payload ends early has been read: 0x0b, length 3, 2 bytes
C8_Witness ==
    /\ last.op = "read_string" /\ last.at = 0
    /\ buffer.data = <<11, 3, 97, 98>>
    /\ last.res.err = "struct.error"

UlebLength(n) == IF n < 128 THEN 1 ELSE IF n < 16384 THEN 2 ELSE 3

\* C9: read_string on 0x0b, ULEB128(n), n payload bytes returns the text of
\* those bytes and leaves the cursor 1 + |ULEB128(n)| + n bytes on, for
\* every n of StringLengths among others; on any other marker byte it
\* returns the empty string and leaves the cursor one byte on.
C9_StringDecoding ==
    /\ (last.op = "read_string" /\ buffer.src.kind = "string" /\ last.at = 0) =>
           /\ buffer.data[1] = 11
           /\ Len(buffer.data) = 1 + UlebLength(buffer.src.n) + buffer.src.n + 1
           /\ last.res.ok
           /\ last.res.val = StringText(buffer.src.n, buffer.src.v)
           /\ last.res.pos = 1 + UlebLength(buffer.src.n) + buffer.src.n
    /\ (last.op = "read_string" /\ Remaining >= 1 /\ buffer.data[last.at + 1] # 11) =>
           /\ last.res.ok
           /\ last.res.val = <<>>
           /\ last.res.pos = last.at + 1

\* the string of 16384 payload bytes has been read
C9_Witness ==
    /\ last.op = "read_string" /\ buffer.src.kind = "string" /\ last.at = 0
    /\ buffer.src.n = 16384
    /\ Len(last.res.val) = 16384

\* whole microseconds in delta ticks, and one more
MicrosBelow(delta) == DivMod64(delta, 10).q
MicrosAbove(delta) == Inc64(DivMod64(delta, 10).q)

DecodesTicks(t, res) ==
    /\ res.ok
    /\ IF ~GE64(t, EpochTicks) THEN res.val = DatetimeMin
       ELSE /\ res.val.tz = "utc" /\ res.val.since = 1970
            /\ res.val.us \in {MicrosBelow(Sub64(t, EpochTicks)), MicrosAbove(Sub64(t, EpochTicks))}
            /\ t = EpochTicks => res.val.us = <<0, 0, 0, 0>>

\* C10: read_datetime of an 8-byte tick count t returns datetime.min when
\* t is below the ticks of 1970-01-01, and otherwise the instant
\* (t - 621355968000000000) / 10^7 seconds after 1970-01-01T00:00:00Z, to
\* the microsecond.
C10_TimestampDecoding ==
    (last.op = "read_datetime" /\ buffer.src.kind = "ticks" /\ last.at = 0) =>
        DecodesTicks(TickSamples[buffer.src.n], last.res)

\* ---------------------------------------------------------------------
\* Properties of the scores decoder
\* ---------------------------------------------------------------------
ScoreListRead == last.op = "parse_score_list"

\* the stream just decoded: its number of scores, its first sample, the
\* score written without its extra field, and the i-th score written
Written(i) == ScoreAt(buffer.src.v, i)
Bit23Written(i) == (Written(i).mods \div Pow2(23)) % 2 = 1

\* the bytes of a score up to and including its online score id
BaseLength(w) == Len(EncScore([w EXCEPT !.mods = 0]))

\* where the i-th score of the stream starts
RECURSIVE ScoreStart(_)
ScoreStart(i) ==
    IF i = 1 THEN Len(ScoreListHeader(buffer.src.n))
    ELSE ScoreStart(i - 1) + BaseLength(Written(i - 1))
         + (IF Bit23Written(i - 1) /\ buffer.src.omit # i - 1 THEN 8 ELSE 0)

\* decoding the i-th score takes its base bytes, and 8 more exactly when
\* bit 23 of its mods is set
TakesExtraIffBit23(i) ==
    /\ parse_score(buffer.data, ScoreStart(i), 20191106).ok
    /\ parse_score(buffer.data, ScoreStart(i), 20191106).pos - ScoreStart(i)
         = BaseLength(Written(i)) + (IF Bit23Written(i) THEN 8 ELSE 0)

\* C11 (as stated): a score takes one extra 8-byte float exactly when bit
\* 23 of its mods is set, and a stream whose score has the bit set but no
\* extra field ends the decode in an end-of-input error.
C11_OmittedFieldEndsInput ==
    ScoreListRead =>
        /\ buffer.src.omit = 0 =>
             /\ last.res.ok /\ last.res.pos = Len(buffer.data)
             /\ \A i \in 1..buffer.src.n : TakesExtraIffBit23(i)
        /\ buffer.src.omit > 0 => EndOfInput(last.res)

\* C11: a score takes one extra 8-byte float exactly when bit 23 of its
\* mods is set.  Where the bit is set and the field was left out, the 8
\* bytes that follow are taken for it: the decode returns no records, with
\* an end-of-input error at that very score when it is the last of the
\* stream, and otherwise with the error the misplaced bytes of the
\* following score give, here a game-mode byte that is no member.
C11_ExtraFieldIffBit23 ==
    ScoreListRead =>
        /\ buffer.src.omit = 0 =>
             /\ last.res.ok /\ last.res.pos = Len(buffer.data)
             /\ \A i \in 1..buffer.src.n : TakesExtraIffBit23(i)
        /\ buffer.src.omit > 0 =>
             /\ ~last.res.ok /\ last.res.val = None
             /\ \A i \in 1..(buffer.src.omit - 1) : TakesExtraIffBit23(i)
             /\ IF buffer.src.omit = buffer.src.n
                THEN /\ EndOfInput(last.res)
                     /\ last.res.pos = Len(buffer.data)
                ELSE /\ TakesExtraIffBit23(buffer.src.omit)
                     /\ last.res.err = "ValueError"
                     /\ last.res.pos = ScoreStart(buffer.src.omit)
                                       + BaseLength(Written(buffer.src.omit)) + 8 + 1

\* a stream of two scores, the first with bit 23 and no extra field, has
\* been decoded: the second score's game mode was read 8 bytes late
C11_Witness ==
    /\ ScoreListRead
    /\ buffer.src.n = 2 /\ buffer.src.omit = 1
    /\ last.res.err = "ValueError"

\* the i-th score the decoder returned, and what the reads of parse_score
\* bound to its local variables while decoding it
Returned(i) == last.res.val.beatmaps_scores[1].scores[i]
Decoding(i) ==
    AdditionalInfo(buffer.data,
                   RunStmts(buffer.data, ScoreStart(i), ScoreStmts, 1, ScoreLocals, <<>>)).env

\* two Python objects are the same value of the same type
Same(a, b) == ToString(a) = ToString(b)

\* C12: a returned score holds the extra field, equal to the 8-byte float
\* read from the stream, exactly when bit 23 of its mods is set, and holds
\* none otherwise.
C12_ExtraFieldPresence ==
    (ScoreListRead /\ last.res.ok) =>
        \A i \in 1..buffer.src.n :
            Same(Returned(i).additional_info,
                 IF Bit23Written(i)
                 THEN read_double(buffer.data, ScoreStart(i) + BaseLength(Written(i))).val
                 ELSE None)

\* C13: a returned score carries each decoded value in the field it was
\* decoded for: mods the 4-byte bitmask, timestamp the decoded ticks,
\* online_score_id the 8-byte integer after the marker, and likewise the
\* game mode, the hashes, the player name, the counts, the total score,
\* the max combo and the perfect-combo flag.
C13_FieldsCarryDecodedValues ==
    (ScoreListRead /\ last.res.ok) =>
        \A i \in 1..buffer.src.n :
            /\ Decoding(i).mods = Mod(Written(i).mods)
            /\ Same(Returned(i).mods, Decoding(i).mods)
            /\ Same(Returned(i).timestamp, Decoding(i).timestamp)
            /\ Same(Returned(i).online_score_id, Decoding(i).online_score_id)
            /\ \A f \in {"gamemode", "score_version", "beatmap_hash", "username",
                         "replay_hash", "count_300", "count_100", "count_50", "count_geki",
                         "count_katu", "count_miss", "total_score", "max_combo",
                         "perfect_combo"} :
                 Same(Returned(i)[f], Decoding(i)[f])

\* ---------------------------------------------------------------------
\* Enumerations
\* ---------------------------------------------------------------------
\* C14: a ranked-status byte, a game-mode byte or one of the four grade
\* bytes of a beatmap record that is no member of its enumeration makes
\* the whole file decode fail: an error, and no records returned.
C14_StrictEnumerations ==
    last.op = "from_data_enum" => (~last.res.ok /\ last.res.val = None)

\* ---------------------------------------------------------------------
\* Properties of the store
\* ---------------------------------------------------------------------
LookedUp == last.op = "get_beatmap_from_hash"

\* some row of the store has the hash looked up
Inserted(hash) == \E i \in 1..Len(db_file.rows) : db_file.rows[i].md5_hash = hash

\* C15: a lookup by hash returns the record with that md5 hash when one
\* was inserted, and reports not-found (no record) as its outcome when
\* none was; the store is as it was at the end of the decode.
C15_LookupByHash ==
    LookedUp =>
        /\ last.res.ok
        /\ IF Inserted(last.key) THEN last.res.val.md5_hash = last.key
           ELSE last.res.val = None

\* =====================================================================
\* The beatmap text parser (beatmap/beatmap.py).  A line is the sequence
\* of its characters, a document the sequence of its lines, in the form
\* Beatmap.from_data hands them to _Parser: without the trailing "\n".
\* =====================================================================
UpperCase == <<"A", "B", "C", "D", "E", "F", "G", "H", "I", "J", "K", "L", "M", "N", "O", "P", "Q", "R", "S", "T", "U", "V", "W", "X", "Y", "Z">>
LowerCase == <<"a", "b", "c", "d", "e", "f", "g", "h", "i", "j", "k", "l", "m", "n", "o", "p", "q", "r", "s", "t", "u", "v", "w", "x", "y", "z">>
Digits    == <<"0", "1", "2", "3", "4", "5", "6", "7", "8", "9">>

IsUpper(c) == \E i \in 1..Len(UpperCase) : UpperCase[i] = c
IsDigit(c) == \E i \in 1..Len(Digits) : Digits[i] = c
IsSpace(c) == c \in {" ", "\t", "\n", "\r"}
DigitValue(c) == (CHOOSE i \in 1..Len(Digits) : Digits[i] = c) - 1

\* str.lower on one character
lower(c) == IF IsUpper(c) THEN LowerCase[CHOOSE i \in 1..Len(UpperCase) : UpperCase[i] = c] ELSE c
LowerAll(text) == [i \in 1..Len(text) |-> lower(text[i])]

\* str.startswith
startswith(text, prefix) ==
    Len(text) >= Len(prefix) /\ SubSeq(text, 1, Len(prefix)) = prefix

\* the least index from `from` on whose character satisfies Test, Len + 1 when none does
FindFrom(text, from, Test(_)) ==
    IF \E i \in from..Len(text) : Test(text[i])
    THEN CHOOSE i \in from..Len(text) : Test(text[i]) /\ \A j \in from..(i - 1) : ~Test(text[j])
    ELSE Len(text) + 1

\* str.split(sep) for a separator of one character
RECURSIVE SplitFrom(_, _, _)
RECURSIVE SplitAt(_, _, _, _)
SplitFrom(text, from, sep) == SplitAt(text, from, FindFrom(text, from, LAMBDA c : c = sep), sep)
SplitAt(text, from, at, sep) ==
    IF at > Len(text) THEN <<SubSeq(text, from, Len(text))>>
    ELSE <<SubSeq(text, from, at - 1)>> \o SplitFrom(text, at + 1, sep)
split(text, sep) == SplitFrom(text, 1, sep)

\* sep.join(parts)
RECURSIVE join(_, _)
join(parts, sep) ==
    IF parts = <<>> THEN <<>>
    ELSE IF Len(parts) = 1 THEN parts[1]
    ELSE parts[1] \o sep \o join(Tail(parts), sep)

\* str.replace("\n", "")
DropNewlines(text) == SelectSeq(text, LAMBDA c : c # "\n")

\* str.lstrip().rstrip()
RECURSIVE lstrip(_)
lstrip(text) == IF text # <<>> /\ IsSpace(Head(text)) THEN lstrip(Tail(text)) ELSE text
RECURSIVE rstrip(_)
rstrip(text) ==
    IF text # <<>> /\ IsSpace(text[Len(text)]) THEN rstrip(SubSeq(text, 1, Len(text) - 1)) ELSE text
strip(text) == rstrip(lstrip(text))

\* ---------------------------------------------------------------------
\* Python values of the decoded document: None, bool, int, float (n / 10^e,
\* e the least possible) and str.
\* ---------------------------------------------------------------------
NoneValue        == [t |-> "None",  n |-> 0, e |-> 0, s |-> <<>>, items |-> <<>>]
BoolValue(b)     == [t |-> "bool",  n |-> IF b THEN 1 ELSE 0, e |-> 0, s |-> <<>>, items |-> <<>>]
IntValue(n)      == [t |-> "int",   n |-> n, e |-> 0, s |-> <<>>, items |-> <<>>]
FloatValue(n, e) == [t |-> "float", n |-> n, e |-> e, s |-> <<>>, items |-> <<>>]
StrValue(s)      == [t |-> "str",   n |-> 0, e |-> 0, s |-> s, items |-> <<>>]
ListValue(items) == [t |-> "list",  n |-> 0, e |-> 0, s |-> <<>>, items |-> items]

IsDigits(text) == text # <<>> /\ \A i \in 1..Len(text) : IsDigit(text[i])

RECURSIVE DigitsValue(_)
DigitsValue(text) ==
    IF text = <<>> THEN 0
    ELSE 10 * DigitsValue(SubSeq(text, 1, Len(text) - 1)) + DigitValue(text[Len(text)])

Unsigned(text) == IF text # <<>> /\ Head(text) \in {"-", "+"} THEN Tail(text) ELSE text
Sign(text)     == IF text # <<>> /\ Head(text) = "-" THEN -1 ELSE 1

\* int(text): surrounding whitespace and a sign are accepted
IsIntText(text) == IsDigits(Unsigned(strip(text)))
IntOf(text)     == Sign(strip(text)) * DigitsValue(Unsigned(strip(text)))

\* a decimal numeral with a fraction part
IsDecimalParts(parts) == Len(parts) = 2 /\ IsDigits(parts[1]) /\ IsDigits(parts[2])
IsDecimalText(text)   == IsDecimalParts(split(Unsigned(text), "."))

RECURSIVE Reduced(_, _)
Reduced(n, e) == IF e > 0 /\ n % 10 = 0 THEN Reduced(n \div 10, e - 1) ELSE FloatValue(n, e)

DecimalOfParts(sign, parts) == Reduced(sign * DigitsValue(parts[1] \o parts[2]), Len(parts[2]))
DecimalOf(text) == DecimalOfParts(Sign(text), split(Unsigned(text), "."))

\* utils.is_number(value): the value is a number or text that reads as one
is_number(value) ==
    \/ value.t \in {"int", "float"}
    \/ value.t = "str" /\ (IsDigits(Unsigned(value.s)) \/ IsDecimalText(value.s))

\* utils.as_number(value): the int or the float the text reads as
as_number(value) ==
    IF value.t # "str" THEN value
    ELSE IF IsDigits(Unsigned(value.s)) THEN IntValue(Sign(value.s) * DigitsValue(Unsigned(value.s)))
    ELSE DecimalOf(value.s)

\* ---------------------------------------------------------------------
\* _Parser.SECTIONS and the methods shared by the section parsers
\* ---------------------------------------------------------------------
GENERAL      == <<"[", "G", "e", "n", "e", "r", "a", "l", "]">>
EDITOR       == <<"[", "E", "d", "i", "t", "o", "r", "]">>
METADATA     == <<"[", "M", "e", "t", "a", "d", "a", "t", "a", "]">>
DIFFICULTY   == <<"[", "D", "i", "f", "f", "i", "c", "u", "l", "t", "y", "]">>
EVENT        == <<"[", "E", "v", "e", "n", "t", "s", "]">>
TIMINGPOINTS == <<"[", "T", "i", "m", "i", "n", "g", "P", "o", "i", "n", "t", "s", "]">>
COLOURS      == <<"[", "C", "o", "l", "o", "u", "r", "s", "]">>
HITOBJECTS   == <<"[", "H", "i", "t", "O", "b", "j", "e", "c", "t", "s", "]">>
ALL == <<GENERAL, EDITOR, METADATA, DIFFICULTY, EVENT, TIMINGPOINTS, COLOURS, HITOBJECTS>>

NoHeader == <<>>

\* get_header(text): the section the line is equal to, None (NoHeader) otherwise
get_header(text) ==
    IF \E i \in 1..Len(ALL) : ALL[i] = text THEN text ELSE NoHeader

\* text[1:]
FromSecond(text) == IF text = <<>> THEN <<>> ELSE Tail(text)

\* get_version(text): int() of the last blank-separated token without its first character
IntOrValueError(text) == IF IsIntText(text) THEN Ok(IntOf(text), 0) ELSE Raise("ValueError", 0)
LastOf(parts) == parts[Len(parts)]
get_version(text) == IntOrValueError(FromSecond(LastOf(split(text, " "))))

\* re.findall("[A-Z][^A-Z]*", key): the runs that start at a capital letter
\* and end before the next one
RECURSIVE CapitalRuns(_, _)
RECURSIVE CapitalRun(_, _, _)
CapitalRuns(key, from) ==
    IF FindFrom(key, from, IsUpper) > Len(key) THEN <<>>
    ELSE CapitalRun(key, FindFrom(key, from, IsUpper),
                    FindFrom(key, FindFrom(key, from, IsUpper) + 1, IsUpper))
CapitalRun(key, at, next) == <<SubSeq(key, at, next - 1)>> \o CapitalRuns(key, next)

\* "_".join(map(lower, re.findall(...)))
JoinLowered(runs) == join([i \in 1..Len(runs) |-> LowerAll(runs[i])], <<"_">>)
SnakeKey(key) == JoinLowered(CapitalRuns(key, 1))

Coerced(value) == IF is_number(value) THEN as_number(value) ELSE value

\* parse_key_value(text): the pair (key, value)
KeyValueOf(tmp) ==
    [key   |-> SnakeKey(strip(tmp[1])),
     value |-> Coerced(StrValue(strip(join(Tail(tmp), <<":">>))))]
parse_key_value(text) == KeyValueOf(split(DropNewlines(text), ":"))

\* parse_values(text): the comma-separated values, numbers where they read as numbers
CoercedAll(parts) == [i \in 1..Len(parts) |-> Coerced(StrValue(parts[i]))]
parse_values(text) == CoercedAll(split(DropNewlines(text), ","))

\* the first loop of every section parser: enumerate(self.data, 1) up to
\* the section's header; the count of all lines when no line is the header
StartIndex(data, section) ==
    IF \E i \in 1..Len(data) : data[i] = section
    THEN CHOOSE i \in 1..Len(data) : data[i] = section /\ \A j \in 1..(i - 1) : data[j] # section
    ELSE Len(data)

IsOtherHeader(line, section) == get_header(line) # section /\ get_header(line) # NoHeader

\* the second loop: self.data[start_index:] up to the header of another
\* section, without the empty lines and the lines that start with "//"
LinesAfter(data, start_index, section) ==
    SelectSeq(
        SubSeq(data, start_index + 1,
               FindFrom(data, start_index + 1, LAMBDA line : IsOtherHeader(line, section)) - 1),
        LAMBDA line : line # <<>> /\ ~startswith(line, <<"/", "/">>))
SectionLines(data, section) == LinesAfter(data, StartIndex(data, section), section)

\* setattr(obj, key, value)
setattr(obj, key, value) == (key :> value) @@ obj

\* a dataclass instance: its attributes by name
Instance(fields) ==
    [k \in {fields[i][1] : i \in 1..Len(fields)} |->
        fields[CHOOSE i \in 1..Len(fields) : fields[i][1] = k][2]]

GeneralSettings ==
    Instance(<<
        <<<<"a", "u", "d", "i", "o", "_", "f", "i", "l", "e", "n", "a", "m", "e">>, NoneValue>>,
        <<<<"a", "u", "d", "i", "o", "_", "l", "e", "a", "d", "_", "i", "n">>, IntValue(0)>>,
        <<<<"a", "u", "d", "i", "o", "_", "h", "a", "s", "h">>, NoneValue>>,
        <<<<"p", "r", "e", "v", "i", "e", "w", "_", "t", "i", "m", "e">>, IntValue(-1)>>,
        <<<<"c", "o", "u", "n", "t", "d", "o", "w", "n">>, IntValue(1)>>,
        <<<<"s", "a", "m", "p", "l", "e", "_", "s", "e", "t">>, StrValue(<<"N", "o", "r", "m", "a", "l">>)>>,
        <<<<"s", "t", "a", "c", "k", "_", "l", "e", "n", "i", "e", "n", "c", "y">>, FloatValue(7, 1)>>,
        <<<<"m", "o", "d", "e">>, IntValue(0)>>,
        <<<<"l", "e", "t", "t", "e", "r", "b", "o", "x", "_", "i", "n", "_", "b", "r", "e", "a", "k", "s">>, BoolValue(FALSE)>>,
        <<<<"s", "t", "o", "r", "y", "_", "f", "i", "r", "e", "_", "i", "n", "_", "f", "r", "o", "n", "t">>, BoolValue(FALSE)>>,
        <<<<"u", "s", "e", "_", "s", "k", "i", "n", "_", "s", "p", "r", "i", "t", "e", "s">>, BoolValue(FALSE)>>,
        <<<<"a", "l", "w", "a", "y", "s", "_", "s", "h", "o", "w", "_", "p", "l", "a", "y", "f", "i", "e", "l", "d">>, IntValue(0)>>,
        <<<<"o", "v", "e", "r", "l", "a", "y", "_", "p", "o", "s", "i", "t", "i", "o", "n">>, StrValue(<<"N", "o", "C", "h", "a", "n", "g", "e">>)>>,
        <<<<"s", "k", "i", "n", "_", "p", "r", "e", "f", "e", "r", "e", "n", "c", "e">>, NoneValue>>,
        <<<<"e", "p", "i", "l", "e", "p", "s", "y", "_", "w", "a", "r", "n", "i", "n", "g">>, BoolValue(FALSE)>>,
        <<<<"c", "o", "u", "n", "t", "d", "o", "w", "n", "_", "o", "f", "f", "s", "e", "t">>, IntValue(0)>>,
        <<<<"s", "p", "e", "c", "i", "a", "l", "_", "s", "t", "y", "l", "e">>, BoolValue(FALSE)>>,
        <<<<"w", "i", "d", "e", "s", "c", "r", "e", "e", "n", "_", "s", "t", "o", "r", "y", "b", "o", "a", "r", "d">>, BoolValue(FALSE)>>,
        <<<<"s", "a", "m", "p", "l", "e", "_", "m", "a", "t", "c", "h", "_", "p", "l", "a", "y", "b", "a", "c", "k">>, BoolValue(FALSE)>> >>)

EditorSettings ==
    Instance(<<
        <<<<"b", "o", "o", "k", "m", "a", "r", "k", "s">>, NoneValue>>,
        <<<<"d", "i", "s", "t", "a", "n", "c", "e", "_", "s", "p", "a", "c", "i", "n", "g">>, NoneValue>>,
        <<<<"b", "e", "a", "t", "_", "d", "i", "v", "i", "s", "o", "r">>, NoneValue>>,
        <<<<"g", "r", "i", "d", "_", "s", "i", "z", "e">>, NoneValue>>,
        <<<<"t", "i", "m", "e", "l", "i", "n", "e", "_", "z", "o", "o", "m">>, NoneValue>> >>)

Metadata ==
    Instance(<<
        <<<<"t", "i", "t", "l", "e">>, NoneValue>>,
        <<<<"t", "i", "t", "l", "e", "_", "u", "n", "i", "c", "o", "d", "e">>, NoneValue>>,
        <<<<"a", "r", "t", "i", "s", "t">>, NoneValue>>,
        <<<<"a", "r", "t", "i", "s", "t", "_", "u", "n", "i", "c", "o", "d", "e">>, NoneValue>>,
        <<<<"c", "r", "e", "a", "t", "o", "r">>, NoneValue>>,
        <<<<"v", "e", "r", "s", "i", "o", "n">>, NoneValue>>,
        <<<<"s", "o", "u", "r", "c", "e">>, NoneValue>>,
        <<<<"t", "a", "g", "s">>, NoneValue>>,
        <<<<"b", "e", "a", "t", "m", "a", "p", "_", "i", "d">>, NoneValue>>,
        <<<<"b", "e", "a", "t", "m", "a", "p", "_", "s", "e", "t", "_", "i", "d">>, NoneValue>> >>)

Difficulty ==
    Instance(<<
        <<<<"h", "p", "_", "d", "r", "a", "i", "n", "_", "r", "a", "t", "e">>, NoneValue>>,
        <<<<"c", "i", "r", "c", "l", "e", "_", "s", "i", "z", "e">>, NoneValue>>,
        <<<<"o", "v", "e", "r", "a", "l", "l", "_", "d", "i", "f", "f", "i", "c", "u", "l", "t", "y">>, NoneValue>>,
        <<<<"a", "p", "p", "r", "o", "a", "c", "h", "_", "r", "a", "t", "e">>, NoneValue>>,
        <<<<"s", "l", "i", "d", "e", "r", "_", "m", "u", "l", "t", "i", "p", "l", "i", "e", "r">>, NoneValue>>,
        <<<<"s", "l", "i", "d", "e", "r", "_", "t", "i", "c", "k", "_", "r", "a", "t", "e">>, NoneValue>> >>)

\* the body of the loop of parse_general, parse_metadata and
\* parse_difficulty over the lines of the section
SetKeyValue(obj, kv) == setattr(obj, kv.key, kv.value)
RECURSIVE SetKeyValues(_, _)
SetKeyValues(obj, lines) ==
    IF lines = <<>> THEN obj
    ELSE SetKeyValues(SetKeyValue(obj, parse_key_value(Head(lines))), Tail(lines))

\* the body of the loop of parse_editor: the value is coerced once more
SetEditorValue(obj, kv) == setattr(obj, kv.key, Coerced(kv.value))
RECURSIVE SetEditorValues(_, _)
SetEditorValues(obj, lines) ==
    IF lines = <<>> THEN obj
    ELSE SetEditorValues(SetEditorValue(obj, parse_key_value(Head(lines))), Tail(lines))

\* start_index is bound by the first loop only when it runs at least once
Unbound(data) == data = <<>>

parse_general(data) ==
    IF Unbound(data) THEN Raise("UnboundLocalError", 0)
    ELSE Ok(SetKeyValues(GeneralSettings, SectionLines(data, GENERAL)), 0)

parse_editor(data) ==
    IF Unbound(data) THEN Raise("UnboundLocalError", 0)
    ELSE Ok(SetEditorValues(EditorSettings, SectionLines(data, EDITOR)), 0)

parse_metadata(data) ==
    IF Unbound(data) THEN Raise("UnboundLocalError", 0)
    ELSE Ok(SetKeyValues(Metadata, SectionLines(data, METADATA)), 0)

parse_difficulty(data) ==
    IF Unbound(data) THEN Raise("UnboundLocalError", 0)
    ELSE Ok(SetKeyValues(Difficulty, SectionLines(data, DIFFICULTY)), 0)

\* ---------------------------------------------------------------------
\* [Events]
\* ---------------------------------------------------------------------
\* values[from:] of a 0-based `from`
SliceFrom(values, from) == SubSeq(values, from + 1, Len(values))

\* EventType(value): the member whose value is equal to the number
IsEventType(value) == value.e = 0 /\ value.n \in {0, 1, 2, 3}

\* parse_background_event / parse_video_event: the keyword arguments
parse_background_event(values) ==
    IF Len(values) = 0 THEN Raise("IndexError", 0)
    ELSE IF Len(values) = 1
    THEN Ok([filename |-> values[1], x_offset |-> IntValue(0), y_offset |-> IntValue(0)], 0)
    ELSE IF Len(values) = 2 THEN Raise("IndexError", 0)
    ELSE Ok([filename |-> values[1], x_offset |-> values[2], y_offset |-> values[3]], 0)

parse_video_event(values) == parse_background_event(values)

parse_break_event(values) ==
    IF Len(values) = 0 THEN Raise("IndexError", 0)
    ELSE Ok([end_time |-> values[1]], 0)

BackgroundEvent(start_time, kw) ==
    [class |-> "BackgroundEvent", start_time |-> start_time, filename |-> kw.filename,
     x_offset |-> kw.x_offset, y_offset |-> kw.y_offset]
VideoEvent(start_time, kw) ==
    [class |-> "VideoEvent", start_time |-> start_time, filename |-> kw.filename,
     x_offset |-> kw.x_offset, y_offset |-> kw.y_offset]
BreakEvent(start_time, kw) ==
    [class |-> "BreakEvent", start_time |-> start_time, end_time |-> kw.end_time]

\* one pass of the loop of parse_events over a line of the section: what
\* is appended to tmp_events, or the exception raised
EventOfLine(values) ==
    IF values[1].t = "str" THEN Ok(<<>>, 0)
    ELSE IF ~IsEventType(values[1]) THEN Raise("ValueError", 0)
    ELSE IF Len(values) < 2 THEN Raise("IndexError", 0)
    ELSE IF values[1].n = 0
    THEN Bind(parse_background_event(SliceFrom(values, 2)),
              LAMBDA kw : Ok(<<BackgroundEvent(values[2], kw.val)>>, 0))
    ELSE IF values[1].n = 1
    THEN Bind(parse_video_event(SliceFrom(values, 2)),
              LAMBDA kw : Ok(<<VideoEvent(values[2], kw.val)>>, 0))
    ELSE IF values[1].n = 2
    THEN Bind(parse_break_event(SliceFrom(values, 2)),
              LAMBDA kw : Ok(<<BreakEvent(values[2], kw.val)>>, 0))
    ELSE Ok(<<>>, 0)

\* a loop that appends what each line gives and ends at the first exception
RECURSIVE EventsOf(_, _)
EventsOf(lines, tmp_events) ==
    IF lines = <<>> THEN Ok(tmp_events, 0)
    ELSE Bind(EventOfLine(parse_values(Head(lines))),
              LAMBDA r : EventsOf(Tail(lines), tmp_events \o r.val))

parse_events(data) ==
    IF Unbound(data) THEN Raise("UnboundLocalError", 0)
    ELSE EventsOf(SectionLines(data, EVENT), <<>>)

\* ---------------------------------------------------------------------
\* [TimingPoints]
\* ---------------------------------------------------------------------
HitSample(normal_set, addition_set, index, volume, filename) ==
    [class |-> "HitSample", normal_set |-> normal_set, addition_set |-> addition_set,
     index |-> index, volume |-> volume, filename |-> filename]

BeatmapTimingPoint(time, beat_length, meter, sample_set, uninherited, effects) ==
    [class |-> "BeatmapTimingPoint", time |-> time, beat_length |-> beat_length,
     meter |-> meter, sample_set |-> sample_set, uninherited |-> uninherited,
     effects |-> effects]

TimingPointOfLine(values) ==
    IF Len(values) < 2 THEN Raise("IndexError", 0)
    ELSE IF Len(values) = 2
    THEN Ok(<<BeatmapTimingPoint(values[1], values[2], NoneValue, NoneValue, NoneValue, NoneValue)>>, 0)
    ELSE IF Len(values) < 7 THEN Raise("IndexError", 0)
    ELSE Ok(<<BeatmapTimingPoint(values[1], values[2], values[3],
                                 HitSample(values[4], NoneValue, values[5], values[6], NoneValue),
                                 values[7],
                                 IF Len(values) > 7 THEN values[8] ELSE NoneValue)>>, 0)

RECURSIVE TimingPointsOf(_, _)
TimingPointsOf(lines, tmp_timing_points) ==
    IF lines = <<>> THEN Ok(tmp_timing_points, 0)
    ELSE Bind(TimingPointOfLine(parse_values(Head(lines))),
              LAMBDA r : TimingPointsOf(Tail(lines), tmp_timing_points \o r.val))

parse_timing_points(data) ==
    IF Unbound(data) THEN Raise("UnboundLocalError", 0)
    ELSE TimingPointsOf(SectionLines(data, TIMINGPOINTS), <<>>)

\* ---------------------------------------------------------------------
\* [Colours]
\* ---------------------------------------------------------------------
ComboColors ==
    Instance(<<
        <<<<"c", "o", "m", "b", "o">>, ListValue(<<>>)>>,
        <<<<"s", "l", "i", "d", "e", "r", "_", "t", "r", "a", "c", "k", "_", "o", "v", "e", "r", "r", "i", "d", "e">>, NoneValue>>,
        <<<<"s", "l", "i", "d", "e", "r", "_", "b", "o", "r", "d", "e", "r">>, NoneValue>> >>)

\* [int(color) for color in value.split(",")]
IntList(parts) ==
    IF \E i \in 1..Len(parts) : ~IsIntText(parts[i]) THEN Raise("ValueError", 0)
    ELSE Ok(ListValue([i \in 1..Len(parts) |-> IntValue(IntOf(parts[i]))]), 0)
ColourList(value) ==
    IF value.t # "str" THEN Raise("AttributeError", 0) ELSE IntList(split(value.s, ","))

\* re.fullmatch(".*[1-9]", key)
IsComboKey(key) == key # <<>> /\ IsDigit(key[Len(key)]) /\ key[Len(key)] # "0"

\* one pass of the loop of parse_colours
ColourOfLine(tmp_combo, kv) ==
    Bind(ColourList(kv.value),
         LAMBDA colours :
             IF IsComboKey(kv.key)
             THEN Ok(setattr(tmp_combo, <<"c", "o", "m", "b", "o">>,
                             ListValue(tmp_combo[<<"c", "o", "m", "b", "o">>].items \o <<colours.val>>)), 0)
             ELSE Ok(setattr(tmp_combo, kv.key, colours.val), 0))

RECURSIVE ColoursOf(_, _)
ColoursOf(lines, tmp_combo) ==
    IF lines = <<>> THEN Ok(tmp_combo, 0)
    ELSE Bind(ColourOfLine(tmp_combo, parse_key_value(Head(lines))),
              LAMBDA r : ColoursOf(Tail(lines), r.val))

parse_colours(data) ==
    IF Unbound(data) THEN Raise("UnboundLocalError", 0)
    ELSE ColoursOf(SectionLines(data, COLOURS), ComboColors)

\* ---------------------------------------------------------------------
\* [HitObjects]
\* ---------------------------------------------------------------------
\* a test that takes the value for the flag alone
HasFlagAlone(n, flag) == n = flag

\* a flag of the IntFlag is in the value
HasFlag(n, flag) == (n \div flag) % 2 = 1

CIRCLE     == 1
SLIDER     == 2
NEW_COMBO  == 4
SPINNER    == 8
MANIA_HOLD == 128

\* HitObjectType(value): every int is a value of the IntFlag, text is none
IsHitObjectType(value) == value.t = "int"

\* str.count(":")
CountColons(text) == Len(SelectSeq(text, LAMBDA c : c = ":"))

\* parse_hit_sample(value): the five colon-separated parts, as text
HitSampleParts(tmp) ==
    [normal_set   |-> StrValue(tmp[1]),
     addition_set |-> StrValue(tmp[2]),
     index        |-> StrValue(tmp[3]),
     volume       |-> StrValue(tmp[4]),
     filename     |-> StrValue(tmp[5])]
parse_hit_sample(value) == HitSampleParts(split(value, ":"))

\* a test that takes any text with two colons or more for a descriptor
HitSampleOfSomeColons(value) ==
    IF value.t = "str" /\ CountColons(value.s) >= 2
    THEN parse_hit_sample(value.s \o <<":", ":">>) ELSE NoneValue

\* the hit_sample of a line: parsed only from text with exactly four colons
HitSampleOf(value) ==
    IF value.t = "str" /\ CountColons(value.s) = 4 THEN parse_hit_sample(value.s) ELSE NoneValue

SliderTypes == {<<"B">>, <<"C">>, <<"L">>, <<"P">>}

\* CurvePoint(int(point.split(":")[0]), int(point.split(":")[1]))
CurvePointParts(parts) ==
    IF ~IsIntText(parts[1]) THEN Raise("ValueError", 0)
    ELSE IF Len(parts) < 2 THEN Raise("IndexError", 0)
    ELSE IF ~IsIntText(parts[2]) THEN Raise("ValueError", 0)
    ELSE Ok([x |-> IntOf(parts[1]), y |-> IntOf(parts[2])], 0)
CurvePointOf(point) == CurvePointParts(split(point, ":"))

RECURSIVE CurvePointsOf(_, _)
CurvePointsOf(points, done) ==
    IF points = <<>> THEN Ok(done, 0)
    ELSE Bind(CurvePointOf(Head(points)),
              LAMBDA r : CurvePointsOf(Tail(points), Append(done, r.val)))

\* a generator expression that nothing iterates
Generator == [class |-> "generator"]

\* parse_slider(values): the keyword arguments of SliderObject
SliderOf(values, curve) ==
    IF curve[1] \notin SliderTypes THEN Raise("ValueError", 0)
    ELSE Bind(CurvePointsOf(Tail(curve), <<>>),
              LAMBDA points :
                  IF Len(values) > 4 /\ values[4].t # "str" THEN Raise("AttributeError", 0)
                  ELSE IF Len(values) > 4 /\ values[5].t # "str" THEN Raise("AttributeError", 0)
                  ELSE Ok([curve_type   |-> curve[1],
                           curve_points |-> points.val,
                           slides       |-> IF Len(values) > 2 THEN values[2] ELSE NoneValue,
                           length       |-> IF Len(values) > 2 THEN values[3] ELSE NoneValue,
                           edge_sounds  |-> IF Len(values) > 4 THEN Generator ELSE NoneValue,
                           edge_sets    |-> IF Len(values) > 4 THEN Generator ELSE NoneValue], 0))
parse_slider(values) ==
    IF Len(values) = 0 THEN Raise("IndexError", 0)
    ELSE IF values[1].t # "str" THEN Raise("AttributeError", 0)
    ELSE SliderOf(values, split(values[1].s, "|"))

\* parse_spinner(values) and parse_hold(values)
parse_spinner(values) == [end_time |-> IF Len(values) > 1 THEN values[1] ELSE NoneValue]
parse_hold(values)    == [end_time |-> IF Len(values) > 1 THEN values[1] ELSE NoneValue]

\* values[5:-1]
Middle(values) == SubSeq(values, 6, Len(values) - 1)

\* combo_skips of an object type
ComboSkips(object_type) == IF object_type > 30 THEN object_type - 143 + 112 ELSE 0

BaseHitObject(class, values) ==
    [class       |-> class,
     x           |-> values[1],
     y           |-> values[2],
     time        |-> values[3],
     hit_sound   |-> values[5],
     hit_sample  |-> HitSampleOf(values[Len(values)]),
     new_combo   |-> HasFlag(values[4].n, NEW_COMBO),
     combo_skips |-> ComboSkips(values[4].n)]

\* one pass of the loop of parse_hit_objects
HitObjectOfLine(values) ==
    IF ~IsHitObjectType(values[1]) THEN Raise("ValueError", 0)
    ELSE IF Len(values) < 5 THEN Raise("ValueError", 0)
    ELSE IF ~IsHitObjectType(values[4]) THEN Raise("ValueError", 0)
    ELSE IF HasFlag(values[4].n, CIRCLE)
    THEN Ok(<<BaseHitObject("CircleObject", values)>>, 0)
    ELSE IF HasFlag(values[4].n, SLIDER)
    THEN Bind(parse_slider(Middle(values)),
              LAMBDA kw : Ok(<<kw.val @@ BaseHitObject("SliderObject", values)>>, 0))
    ELSE IF HasFlag(values[4].n, SPINNER)
    THEN Ok(<<parse_spinner(Middle(values)) @@ BaseHitObject("SpinnerObject", values)>>, 0)
    ELSE IF HasFlag(values[4].n, MANIA_HOLD)
    THEN Ok(<<parse_hold(Middle(values)) @@ BaseHitObject("ManiaHoldObject", values)>>, 0)
    ELSE Ok(<<>>, 0)

RECURSIVE HitObjectsOf(_, _)
HitObjectsOf(lines, tmp_objects) ==
    IF lines = <<>> THEN Ok(tmp_objects, 0)
    ELSE Bind(HitObjectOfLine(parse_values(Head(lines))),
              LAMBDA r : HitObjectsOf(Tail(lines), tmp_objects \o r.val))

parse_hit_objects(data) ==
    IF Unbound(data) THEN Raise("UnboundLocalError", 0)
    ELSE HitObjectsOf(SectionLines(data, HITOBJECTS), <<>>)

\* ---------------------------------------------------------------------
\* _Parser.parse and Beatmap.from_data
\* ---------------------------------------------------------------------
VersionPrefix == <<"o", "s", "u", " ", "f", "i", "l", "e", " ", "f", "o", "r", "m", "a", "t">>

IsVersionLine(line) ==
    line \notin {<<>>, <<" ">>, <<"\n">>} /\ startswith(line, VersionPrefix)

\* a scan that goes by the last version line of the document
ScanVersionLast(data, version) ==
    IF version # -1 THEN Ok(version, 0)
    ELSE IF FindFrom(data, 1, IsVersionLine) > Len(data) THEN Ok(-1, 0)
    ELSE get_version(data[CHOOSE i \in 1..Len(data) :
                              IsVersionLine(data[i]) /\ \A j \in (i + 1)..Len(data) : ~IsVersionLine(data[j])])

\* the version parse works with: the one given, or the one of the first
\* version line, or -1 where no line is one
ScanVersion(data, version) ==
    IF version # -1 THEN Ok(version, 0)
    ELSE IF FindFrom(data, 1, IsVersionLine) > Len(data) THEN Ok(-1, 0)
    ELSE get_version(data[FindFrom(data, 1, IsVersionLine)])

\* the steps of parse, in the order it takes them
ParseSteps(data, version) ==
    <<ScanVersion(data, version), parse_general(data), parse_editor(data),
      parse_metadata(data), parse_difficulty(data), parse_events(data),
      parse_timing_points(data), parse_colours(data), parse_hit_objects(data)>>

BeatmapDocument(steps) ==
    [version          |-> steps[1].val,
     general_settings |-> steps[2].val,
     editor_settings  |-> steps[3].val,
     metadata         |-> steps[4].val,
     difficulty       |-> steps[5].val,
     events           |-> steps[6].val,
     timing_points    |-> steps[7].val,
     colours          |-> steps[8].val,
     hit_objects      |-> steps[9].val]

\* the first step that raises ends parse with its exception
Parsed(steps) ==
    IF \E i \in 1..Len(steps) : ~steps[i].ok
    THEN steps[CHOOSE i \in 1..Len(steps) : ~steps[i].ok /\ \A j \in 1..(i - 1) : steps[j].ok]
    ELSE Ok(BeatmapDocument(steps), 0)

parse(data, version) == Parsed(ParseSteps(data, version))

\* str.rstrip("\n")
RECURSIVE rstrip_newline(_)
rstrip_newline(text) ==
    IF text # <<>> /\ text[Len(text)] = "\n"
    THEN rstrip_newline(SubSeq(text, 1, Len(text) - 1)) ELSE text

\* Beatmap.from_data(data, format_ver)
beatmap_from_data(data, format_ver) ==
    parse([i \in 1..Len(data) |-> rstrip_newline(data[i])], format_ver)

\* ---------------------------------------------------------------------
\* The documents decoded: up to MaxBlocks blocks of lines, one after the
\* other, as readlines() gives them (every line ends with "\n").
\* ---------------------------------------------------------------------
MaxBlocks == 2

VersionLine == <<"o", "s", "u", " ", "f", "i", "l", "e", " ", "f", "o", "r", "m", "a", "t", " ", "v", "1", "4">>
OlderVersionLine == <<"o", "s", "u", " ", "f", "i", "l", "e", " ", "f", "o", "r", "m", "a", "t", " ", "v", "5">>
EmptyLine   == <<>>
CommentLine == <<"/", "/", "s", "t", "o", "r", "y", "b", "o", "a", "r", "d">>
SpaceLine   == <<" ">>

Blocks ==
    { <<VersionLine>>,
      <<OlderVersionLine>>,
      <<EmptyLine>>,
      <<CommentLine>>,
      <<SpaceLine>>,
      <<GENERAL, <<"A", "u", "d", "i", "o", "F", "i", "l", "e", "n", "a", "m", "e", ":", " ", "a", "u", "d", "i", "o", ".", "m", "p", "3">>, <<"M", "o", "d", "e", ":", " ", "1">>>>,
      <<GENERAL, <<"P", "r", "e", "v", "i", "e", "w", "T", "i", "m", "e", ":", " ", "5">>, EDITOR, <<"B", "e", "a", "t", "D", "i", "v", "i", "s", "o", "r", ":", " ", "4">>, <<"B", "o", "o", "k", "m", "a", "r", "k", "s", ":", " ", "1", ",", "2">>>>,
      <<METADATA, <<"T", "i", "t", "l", "e", ":", "a", ":", "b">>, <<"B", "e", "a", "t", "m", "a", "p", "I", "D", ":", "7">>, <<"B", "e", "a", "t", "m", "a", "p", "S", "e", "t", "I", "D", ":", " ", "3">>>>,
      <<DIFFICULTY, <<"H", "P", "D", "r", "a", "i", "n", "R", "a", "t", "e", ":", "5">>, <<"S", "l", "i", "d", "e", "r", "M", "u", "l", "t", "i", "p", "l", "i", "e", "r", ":", "1", ".", "4">>>>,
      <<EVENT, <<"0", ",", "0", ",", "b", "g", ".", "j", "p", "g", ",", "0", ",", "0">>, <<"S", "p", "r", "i", "t", "e", ",", "P", "a", "s", "s", ",", "C", "e", "n", "t", "r", "e", ",", "s", "b", ".", "p", "n", "g", ",", "3", "2", "0", ",", "2", "4", "0">>,
        <<"V", "i", "d", "e", "o", ",", "1", "0", ",", "v", ".", "a", "v", "i">>, <<"1", ",", "1", "0", ",", "v", ".", "a", "v", "i">>, <<"2", ",", "1", "0", "0", ",", "2", "0", "0">>>>,
      <<<<"3", ",", "1", "0", "0", ",", "1", "6", "3", ",", "1", "6", "2", ",", "2", "5", "5">>>>,
      <<<<"4", ",", "0", ",", "0", ",", "s", "b", ".", "p", "n", "g", ",", "3", "2", "0", ",", "2", "4", "0">>>>,
      <<TIMINGPOINTS, <<"0", ",", "5", "0", "0", ",", "4", ",", "1", ",", "0", ",", "1", "0", "0", ",", "1", ",", "0">>, <<"1", "0", "0", "0", ",", "-", "5", "0">>>>,
      <<COLOURS, <<"C", "o", "m", "b", "o", "1", " ", ":", " ", "2", "5", "5", ",", "0", ",", "0">>, <<"S", "l", "i", "d", "e", "r", "B", "o", "r", "d", "e", "r", " ", ":", " ", "1", ",", "2", ",", "3">>>>,
      <<HITOBJECTS, <<"2", "5", "6", ",", "1", "9", "2", ",", "1", "0", "0", "0", ",", "1", ",", "0", ",", "0", ":", "0", ":", "0", ":", "0", ":">>, <<"2", "5", "6", ",", "1", "9", "2", ",", "2", "0", "0", "0", ",", "1", "2", ",", "0", ",", "3", "0", "0", "0", ",", "0", ":", "0", ":", "0", ":", "0", ":">>>>,
      <<HITOBJECTS, <<"1", "0", "0", ",", "1", "0", "0", ",", "3", "0", "0", "0", ",", "6", ",", "0", ",", "B", "|", "2", "0", "0", ":", "2", "0", "0", "|", "2", "5", "0", ":", "2", "0", "0", ",", "1", ",", "1", "0", "0", ",", "2", "|", "0", ",", "0", ":", "0", "|", "0", ":", "0", ",", "0", ":", "0", ":", "0", ":", "0", ":">>,
        <<"6", "4", ",", "1", "9", "2", ",", "4", "0", "0", "0", ",", "1", "2", "8", ",", "0", ",", "4", "5", "0", "0", ":", "0", ":", "0", ":", "0", ":", "0", ":">>>> }

BlockLists == UNION {[1..n -> Blocks] : n \in 0..MaxBlocks}

RECURSIVE Flatten(_)
Flatten(blocks) == IF blocks = <<>> THEN <<>> ELSE Head(blocks) \o Flatten(Tail(blocks))

\* file.readlines(): the lines with their line ends
readlines(lines) == [i \in 1..Len(lines) |-> lines[i] \o <<"\n">>]

Documents == {readlines(Flatten(blocks)) : blocks \in BlockLists}

\* the format_ver arguments tried: the default -1 and a version
FormatVersions == {-1, 9}

TextSrc == [kind |-> "text"]

\* Beatmap.from_data(data, format_ver) on the document
BeatmapFromData ==
    /\ reads < MaxReads
    /\ last = NoRead
    /\ buffer.src.kind = "text"
    /\ \E format_ver \in FormatVersions :
         /\ last' = [op |-> "beatmap_from_data", at |-> 0, format_ver |-> format_ver,
                     res |-> beatmap_from_data(buffer.data, format_ver)]
         /\ reads' = reads + 1
    /\ UNCHANGED <<buffer, osu_vars>>

TextInit ==
    /\ \E data \in Documents : buffer = [data |-> data, pos |-> 0, src |-> TextSrc]
    /\ last = NoRead
    /\ reads = 0
    /\ OsuInit
    /\ db_file = [table |-> FALSE, rows |-> <<>>]

TextNext == BeatmapFromData

SpecText == TextInit /\ [][TextNext]_vars

\* ---------------------------------------------------------------------
\* Claims about the text parser
\* ---------------------------------------------------------------------
TextDecoded == last.op = "beatmap_from_data"

\* the lines of the document as _Parser holds them
TextLines == [i \in 1..Len(buffer.data) |-> rstrip_newline(buffer.data[i])]

\* the lines a state machine over the lines parses under a section: the
\* lines, other than headers, empty lines and comments, that follow a
\* header of the section with no other header in between
RECURSIVE LinesUnderFrom(_, _, _, _)
LinesUnderFrom(data, i, current, section) ==
    IF i > Len(data) THEN <<>>
    ELSE IF get_header(data[i]) # NoHeader
    THEN LinesUnderFrom(data, i + 1, get_header(data[i]), section)
    ELSE (IF current = section /\ data[i] # <<>> /\ ~startswith(data[i], <<"/", "/">>)
          THEN <<data[i]>> ELSE <<>>)
         \o LinesUnderFrom(data, i + 1, current, section)
LinesUnder(data, section) == LinesUnderFrom(data, 1, NoHeader, section)

\* the document the section grammars give on the lines of each section
StateMachineDocument(data, version) ==
    Parsed(<<ScanVersion(data, version),
             Ok(SetKeyValues(GeneralSettings, LinesUnder(data, GENERAL)), 0),
             Ok(SetEditorValues(EditorSettings, LinesUnder(data, EDITOR)), 0),
             Ok(SetKeyValues(Metadata, LinesUnder(data, METADATA)), 0),
             Ok(SetKeyValues(Difficulty, LinesUnder(data, DIFFICULTY)), 0),
             EventsOf(LinesUnder(data, EVENT), <<>>),
             TimingPointsOf(LinesUnder(data, TIMINGPOINTS), <<>>),
             ColoursOf(LinesUnder(data, COLOURS), ComboColors),
             HitObjectsOf(LinesUnder(data, HITOBJECTS), <<>>)>>)

\* the fields of a dataclass instance: what its == and its repr go by
Fields(obj, class) == [k \in DOMAIN class |-> obj[k]]

Shown(doc) ==
    [doc EXCEPT !.general_settings = Fields(@, GeneralSettings),
                !.editor_settings  = Fields(@, EditorSettings),
                !.metadata         = Fields(@, Metadata),
                !.difficulty       = Fields(@, Difficulty),
                !.colours          = Fields(@, ComboColors)]

\* two outcomes of a decode are the same: equal documents, or the same exception
SameOutcome(a, b) ==
    /\ a.ok = b.ok
    /\ IF a.ok THEN Shown(a.val) = Shown(b.val) ELSE a.err = b.err

\* C16: the decode is that of a state machine over the lines: a header
\* line switches the section, every other line that is neither empty nor
\* a comment is parsed under the grammar of the section entered last,
\* whatever the order and the number of occurrences of the headers, and
\* the lines before the first header count for the version only.
C16_StateMachineOverLines ==
    TextDecoded => SameOutcome(last.res, StateMachineDocument(TextLines, last.format_ver))


\* data with the line put in after its first i lines
InsertAt(data, i, line) == SubSeq(data, 1, i) \o <<line>> \o SubSeq(data, i + 1, Len(data))

\* blank lines (nothing, or white space only, before the line end) and a comment line
BlankLines   == {<<"\n">>, <<" ", "\n">>}
IgnoredLines == BlankLines \cup {<<"/", "/", "s", "t", "o", "r", "y", "b", "o", "a", "r", "d", "\n">>}

\* C17: blank lines and lines that begin with "//" are ignored everywhere:
\* a document that decodes gives the same decoded document, and no
\* error, with one more such line at any position.
C17_IgnoredLinesAnywhere ==
    (TextDecoded /\ last.res.ok) =>
        \A i \in 0..Len(buffer.data), line \in IgnoredLines :
            SameOutcome(beatmap_from_data(InsertAt(buffer.data, i, line), last.format_ver),
                        last.res)


\* the first line of the document that begins with "osu file format"
HasVersionLine   == \E i \in 1..Len(TextLines) : startswith(TextLines[i], VersionPrefix)
FirstVersionLine ==
    TextLines[CHOOSE i \in 1..Len(TextLines) :
                  /\ startswith(TextLines[i], VersionPrefix)
                  /\ \A j \in 1..(i - 1) : ~startswith(TextLines[j], VersionPrefix)]

\* the N of a line "osu file format vN"
VersionNamed(line) == DigitsValue(SubSeq(line, Len(VersionPrefix \o <<" ", "v">>) + 1, Len(line)))

\* the document without its version lines
WithoutVersionLines ==
    SelectSeq(buffer.data, LAMBDA line : ~startswith(line, VersionPrefix))

\* the line is read as content of a section whose grammar it does not fit
InListSection(line) ==
    \E section \in {TIMINGPOINTS, COLOURS, HITOBJECTS} :
        \E i \in 1..Len(SectionLines(TextLines, section)) :
            SectionLines(TextLines, section)[i] = line

\* the contents of the sections of a decoded document
Sections(doc) == [Shown(doc) EXCEPT !.version = 0]

\* C18 as stated: with no version supplied, a document that decodes
\* without its version lines decodes with them, wherever they are, to a
\* document whose version is the N of the first of them.
C18_VersionWherever ==
    (TextDecoded /\ last.format_ver = -1 /\ HasVersionLine
        /\ beatmap_from_data(WithoutVersionLines, -1).ok) =>
        /\ last.res.ok
        /\ last.res.val.version = VersionNamed(FirstVersionLine)

\* C18 (amended): with no version supplied, a document returned has the
\* N of the first line "osu file format vN" as its version, wherever the
\* line is; no document is returned when that line is read as content of
\* [TimingPoints], [Colours] or [HitObjects]; and the sections decoded
\* are the same whether the version was scanned or supplied.
C18_VersionScanned ==
    TextDecoded =>
        /\ (last.format_ver = -1 /\ HasVersionLine /\ last.res.ok) =>
               last.res.val.version = VersionNamed(FirstVersionLine)
        /\ (HasVersionLine /\ InListSection(FirstVersionLine)) => ~last.res.ok
        /\ \A format_ver \in FormatVersions :
               (last.res.ok /\ beatmap_from_data(buffer.data, format_ver).ok) =>
                   Sections(beatmap_from_data(buffer.data, format_ver).val) = Sections(last.res.val)

\* a version line that follows a section header, scanned from a
\* document that decodes
C18_Witness ==
    /\ TextDecoded /\ last.format_ver = -1 /\ last.res.ok
    /\ HasVersionLine
    /\ get_header(TextLines[1]) # NoHeader
    /\ last.res.val.version = VersionNamed(FirstVersionLine)


IsLower(c) == \E i \in 1..Len(LowerCase) : LowerCase[i] = c

\* the lowercase-underscore form of a key: a capital opens a new word
\* where it follows a lower-case letter or a digit, or is followed by a
\* lower-case letter (HPDrainRate: hp_drain_rate, BeatmapID: beatmap_id)
OpensWord(key, i) ==
    /\ i > 1 /\ IsUpper(key[i])
    /\ \/ IsLower(key[i - 1]) \/ IsDigit(key[i - 1])
       \/ i < Len(key) /\ IsLower(key[i + 1])
RECURSIVE LowerUnderscoreFrom(_, _)
LowerUnderscoreFrom(key, i) ==
    IF i > Len(key) THEN <<>>
    ELSE (IF OpensWord(key, i) THEN <<"_">> ELSE <<>>) \o <<lower(key[i])>>
         \o LowerUnderscoreFrom(key, i + 1)
LowerUnderscore(key) == LowerUnderscoreFrom(key, 1)

\* a "Key: value" line taken apart at its first colon
HasColon(line)   == FindFrom(line, 1, LAMBDA c : c = ":") <= Len(line)
FieldName(line)  == LowerUnderscore(strip(SubSeq(line, 1, FindFrom(line, 1, LAMBDA c : c = ":") - 1)))
FieldValue(line) ==
    Coerced(StrValue(strip(SubSeq(line, FindFrom(line, 1, LAMBDA c : c = ":") + 1, Len(line)))))

\* the key/value sections: header, settings class, field of the document
KeyValueSections ==
    { [header |-> GENERAL,    class |-> GeneralSettings, field |-> "general_settings"],
      [header |-> EDITOR,     class |-> EditorSettings,  field |-> "editor_settings"],
      [header |-> METADATA,   class |-> Metadata,        field |-> "metadata"],
      [header |-> DIFFICULTY, class |-> Difficulty,      field |-> "difficulty"] }

\* the i-th line the section parser reads is the last one with its key
LastOfKey(lines, i) ==
    \A j \in (i + 1)..Len(lines) : ~(HasColon(lines[j]) /\ FieldName(lines[j]) = FieldName(lines[i]))

\* C19: in [General], [Editor], [Metadata] and [Difficulty] a line
\* "Key: value" is split at its first colon, both sides are trimmed, and
\* the value is stored in the field named by the lowercase-underscore
\* form of the key, for every key of the schemas (HPDrainRate in
\* hp_drain_rate, BeatmapID in beatmap_id, BeatmapSetID in beatmap_set_id).
C19_KeyValueFields ==
    (TextDecoded /\ last.res.ok) =>
        \A sec \in KeyValueSections :
            \A i \in 1..Len(SectionLines(TextLines, sec.header)) :
                (/\ HasColon(SectionLines(TextLines, sec.header)[i])
                 /\ FieldName(SectionLines(TextLines, sec.header)[i]) \in DOMAIN sec.class
                 /\ LastOfKey(SectionLines(TextLines, sec.header), i)) =>
                    last.res.val[sec.field][FieldName(SectionLines(TextLines, sec.header)[i])]
                        = FieldValue(SectionLines(TextLines, sec.header)[i])


\* what a line of [Events] stands for: an event for the codes 0, 1 and 2,
\* nothing for a storyboard command and for every other numeric code
EventNamed(values) ==
    IF values[1].t = "str" THEN <<>>
    ELSE IF values[1] = IntValue(0)
    THEN <<BackgroundEvent(values[2], parse_background_event(SliceFrom(values, 2)).val)>>
    ELSE IF values[1] = IntValue(1)
    THEN <<VideoEvent(values[2], parse_video_event(SliceFrom(values, 2)).val)>>
    ELSE IF values[1] = IntValue(2)
    THEN <<BreakEvent(values[2], parse_break_event(SliceFrom(values, 2)).val)>>
    ELSE <<>>

RECURSIVE EventsNamed(_)
EventsNamed(lines) ==
    IF lines = <<>> THEN <<>>
    ELSE EventNamed(parse_values(Head(lines))) \o EventsNamed(Tail(lines))

\* the first value of some line of [Events] is the number n
EventCodeRead(n) ==
    \E i \in 1..Len(SectionLines(TextLines, EVENT)) :
        parse_values(SectionLines(TextLines, EVENT)[i])[1] = IntValue(n)

\* C20: in [Events] a line whose first token is no number is skipped,
\* the codes 0, 1 and 2 give a Background, a Video and a Break event in
\* the order of the lines, and a line with any other numeric code is
\* skipped: it does not fail the parse and the other events are decoded.
C20_EventsByCode ==
    (TextDecoded /\ buffer.data # <<>>) =>
        /\ parse_events(TextLines).ok
        /\ last.res.ok => last.res.val.events = EventsNamed(SectionLines(TextLines, EVENT))

\* ---------------------------------------------------------------------
\* Documents of one list section: the header of the section, a first
\* line of the section's pool and up to MaxLines - 1 further lines.
\* ---------------------------------------------------------------------
MaxLines == 2

\* the type fields and the fields after hit_sound of the hit object lines
HitObjectTypes == {<<"1">>, <<"5">>, <<"2">>, <<"6">>, <<"8">>, <<"1", "2">>, <<"1", "2", "8">>, <<"1", "7">>, <<"3", "3">>, <<"3", "7">>, <<"4">>}
HitObjectRests ==
    {<<>>, <<",", "0", ":", "0", ":", "0", ":", "0", ":">>, <<",", "0", ":", "0", ":", "0">>, <<",", "3", "0", "0", "0">>, <<",", "3", "0", "0", "0", ",", "0", ":", "0", ":", "0", ":", "0", ":">>, <<",", "3", "0", "0", "0", ",", "7", ",", "0", ":", "0", ":", "0", ":", "0", ":">>,
     <<",", "B", "|", "1", ":", "2", ",", "1", ",", "1", "4", "0", ",", "0", ":", "0", ":", "0", ":", "0", ":">>}
HitObjectLines ==
    {<<"2", "5", "6", ",", "1", "9", "2", ",", "1", "0", "0", "0", ",">> \o type \o <<",", "0">> \o rest : type \in HitObjectTypes, rest \in HitObjectRests}

TimingPointLines ==
    {<<"1", "0", "0", "0">>, <<"1", "0", "0", "0", ",", "-", "5", "0">>, <<"0", ",", "5", "0", "0", ",", "4">>, <<"0", ",", "5", "0", "0", ",", "4", ",", "1", ",", "0", ",", "1", "0", "0">>, <<"0", ",", "5", "0", "0", ",", "4", ",", "1", ",", "0", ",", "1", "0", "0", ",", "1">>,
     <<"0", ",", "5", "0", "0", ",", "4", ",", "1", ",", "0", ",", "1", "0", "0", ",", "1", ",", "0">>, <<"0", ",", "5", "0", "0", ",", "4", ",", "1", ",", "0", ",", "1", "0", "0", ",", "0", ",", "1", ",", "9">>}

ColourLines ==
    {<<"C", "o", "m", "b", "o", "1", " ", ":", " ", "2", "5", "5", ",", "0", ",", "0">>, <<"C", "o", "m", "b", "o", "2", " ", ":", " ", "0", ",", "2", "5", "5", ",", "0">>, <<"C", "o", "m", "b", "o", "3", " ", ":", " ", "0", ",", "0", ",", "2", "5", "5">>, <<"C", "o", "m", "b", "o", "1", "0", " ", ":", " ", "9", ",", "9", ",", "9">>,
     <<"S", "l", "i", "d", "e", "r", "B", "o", "r", "d", "e", "r", " ", ":", " ", "1", ",", "2", ",", "3">>, <<"S", "l", "i", "d", "e", "r", "T", "r", "a", "c", "k", "O", "v", "e", "r", "r", "i", "d", "e", " ", ":", " ", "4", ",", "5", ",", "6">>}

\* the lines a section's first line is drawn from, and the lines after it
LinePool(section) ==
    IF section = HITOBJECTS THEN HitObjectLines
    ELSE IF section = TIMINGPOINTS THEN TimingPointLines
    ELSE ColourLines

FurtherLines(section) ==
    IF section = HITOBJECTS
    THEN {<<"6", "4", ",", "1", "9", "2", ",", "4", "0", "0", "0", ",", "5", ",", "0", ",", "0", ":", "0", ":", "0", ":", "0", ":">>, <<"2", "5", "6", ",", "1", "9", "2", ",", "2", "0", "0", "0", ",", "1", "2", ",", "0", ",", "3", "0", "0", "0", ",", "7", ",", "0", ":", "0", ":", "0", ":", "0", ":">>}
    ELSE IF section = TIMINGPOINTS THEN {<<"2", "0", "0", "0", ",", "-", "1", "0", "0">>, <<"3", "0", "0", "0", ",", "4", "0", "0", ",", "4", ",", "2", ",", "1", ",", "6", "0", ",", "1", ",", "0">>}
    ELSE {<<"C", "o", "m", "b", "o", "1", " ", ":", " ", "2", "5", "5", ",", "0", ",", "0">>, <<"C", "o", "m", "b", "o", "2", " ", ":", " ", "0", ",", "2", "5", "5", ",", "0">>}

ListSections == {HITOBJECTS, TIMINGPOINTS, COLOURS}

LineDocumentsOf(section) ==
    {readlines(<<section, first>> \o further) :
        first \in LinePool(section),
        further \in UNION {[1..n -> FurtherLines(section)] : n \in 0..(MaxLines - 1)}}

LineDocuments == UNION {LineDocumentsOf(section) : section \in ListSections}

LineInit ==
    /\ \E data \in LineDocuments : buffer = [data |-> data, pos |-> 0, src |-> TextSrc]
    /\ last = NoRead
    /\ reads = 0
    /\ OsuInit
    /\ db_file = [table |-> FALSE, rows |-> <<>>]

SpecLines == LineInit /\ [][TextNext]_vars

\* ---------------------------------------------------------------------
\* Claims about the list sections
\* ---------------------------------------------------------------------
\* a document of the one section came back from the decode
SectionDecoded(section) == TextDecoded /\ last.res.ok /\ TextLines[1] = section

\* the comma-separated fields of a line, as text, and the type of a hit
\* object line as a number
FieldsOf(line) == split(line, ",")
TypeOf(line)   == IntOf(FieldsOf(line)[4])

\* bit i of a bitmask
Bit(n, i) == (n \div (2 ^ i)) % 2 = 1

\* the variants the bits of a type stand for
Variants(type) ==
    (IF Bit(type, 0) THEN {"CircleObject"} ELSE {})
    \cup (IF Bit(type, 1) THEN {"SliderObject"} ELSE {})
    \cup (IF Bit(type, 3) THEN {"SpinnerObject"} ELSE {})
    \cup (IF Bit(type, 7) THEN {"ManiaHoldObject"} ELSE {})

\* the hit object lines whose type names a variant
VariantLines == SelectSeq(Tail(TextLines), LAMBDA line : Variants(TypeOf(line)) # {})

VariantOfLine(object, line) ==
    /\ object.class \in Variants(TypeOf(line))
    /\ object.new_combo = Bit(TypeOf(line), 2)
    /\ object.time = IntValue(IntOf(FieldsOf(line)[3]))
    /\ TypeOf(line) = 1 => object.class = "CircleObject" /\ ~object.new_combo /\ object.combo_skips = 0
    /\ TypeOf(line) = 5 => object.class = "CircleObject" /\ object.new_combo

LineByLine(objects, lines, Holds(_, _)) ==
    /\ Len(objects) = Len(lines)
    /\ \A k \in 1..Len(lines) : Holds(objects[k], lines[k])

\* C21: every hit object line gives, at its place in the output, the
\* variant its type bitmask names (bit 0 Circle, bit 1 Slider, bit 3
\* Spinner, bit 7 ManiaHold) with new_combo exactly when bit 2 is set;
\* type 1 is a Circle without new_combo and with combo_skips 0, type 5 a
\* Circle with new_combo.
C21_VariantByBitmask ==
    SectionDecoded(HITOBJECTS) => LineByLine(last.res.val.hit_objects, VariantLines, VariantOfLine)

C21_Witness ==
    /\ SectionDecoded(HITOBJECTS)
    /\ Len(last.res.val.hit_objects) = 2
    /\ TypeOf(TextLines[2]) = 6
    /\ last.res.val.hit_objects[1].class = "SliderObject"
    /\ last.res.val.hit_objects[1].new_combo
    /\ last.res.val.hit_objects[2].class = "SpinnerObject"

\* the count bits 4, 5 and 6 of a type encode: (type >> 4) & 7
SkipCount(type) == (type \div 16) % 8

SkipsOfLine(object, line) == object.combo_skips = SkipCount(TypeOf(line))

\* C22: combo_skips of every decoded hit object is the count in bits 4, 5
\* and 6 of its type, whatever the variant bits and the new-combo bit are.
C22_ComboSkipsBits ==
    SectionDecoded(HITOBJECTS) => LineByLine(last.res.val.hit_objects, VariantLines, SkipsOfLine)

\* the line has an end time after its five common fields
HasEndTime(line) == Len(FieldsOf(line)) > 5 /\ IsIntText(FieldsOf(line)[6])

EndTimeOfLine(object, line) ==
    (object.class \in {"SpinnerObject", "ManiaHoldObject"} /\ HasEndTime(line))
        => object.end_time = IntValue(IntOf(FieldsOf(line)[6]))

\* C23: the end time that follows the five common fields of a Spinner or
\* ManiaHold line is the end_time of the object, with or without a hit
\* sample after it.
C23_EndTimeRead ==
    SectionDecoded(HITOBJECTS) => LineByLine(last.res.val.hit_objects, VariantLines, EndTimeOfLine)

\* the last field of a line is text with exactly four colons
LastField(line) == FieldsOf(line)[Len(FieldsOf(line))]
IsSampleText(field) == ~is_number(StrValue(field)) /\ CountColons(field) = 4

\* the five colon-separated parts of a descriptor
DescriptorOf(field) ==
    [normal_set   |-> StrValue(split(field, ":")[1]),
     addition_set |-> StrValue(split(field, ":")[2]),
     index        |-> StrValue(split(field, ":")[3]),
     volume       |-> StrValue(split(field, ":")[4]),
     filename     |-> StrValue(split(field, ":")[5])]

SampleOfLine(object, line) ==
    IF IsSampleText(LastField(line))
    THEN object.hit_sample = DescriptorOf(LastField(line))
    ELSE object.hit_sample = NoneValue

\* no line of the document is typed as a slider
NoSliderLine == \A k \in 2..Len(TextLines) : ~Bit(TypeOf(TextLines[k]), 1) \/ Bit(TypeOf(TextLines[k]), 0)

\* C28: an object carries the hit-sample descriptor of its line's last
\* field exactly when that field is text with four colons, and no hit
\* sample otherwise; whatever the last field is, lines of circles,
\* spinners and holds decode.
C28_HitSampleIffFourColons ==
    (TextDecoded /\ TextLines[1] = HITOBJECTS) =>
        /\ NoSliderLine => last.res.ok
        /\ last.res.ok => LineByLine(last.res.val.hit_objects, VariantLines, SampleOfLine)

C28_Witness ==
    /\ SectionDecoded(HITOBJECTS)
    /\ Len(last.res.val.hit_objects) = 2
    /\ CountColons(LastField(TextLines[2])) = 2
    /\ last.res.val.hit_objects[1].hit_sample = NoneValue
    /\ last.res.val.hit_objects[2].hit_sample # NoneValue

\* the number a field of a line reads as
NumberOf(field) == as_number(StrValue(field))

WithoutDescriptor(point) ==
    /\ point.meter = NoneValue
    /\ point.sample_set = NoneValue
    /\ point.uninherited = NoneValue

WithDescriptor(point, fields) ==
    /\ point.meter = NumberOf(fields[3])
    /\ point.sample_set # NoneValue
    /\ point.sample_set.normal_set = NumberOf(fields[4])
    /\ point.sample_set.index = NumberOf(fields[5])
    /\ point.sample_set.volume = NumberOf(fields[6])
    /\ point.uninherited = NumberOf(fields[7])

PointOfFields(point, fields) ==
    /\ point.time = NumberOf(fields[1])
    /\ point.beat_length = NumberOf(fields[2])
    /\ IF Len(fields) = 2 THEN WithoutDescriptor(point) ELSE WithDescriptor(point, fields)
    /\ IF Len(fields) > 7 THEN point.effects = NumberOf(fields[8]) ELSE point.effects = NoneValue

PointOfLine(point, line) == PointOfFields(point, FieldsOf(line))

\* every line of the section has the two fields of a timing point
TwoFieldsEach == \A k \in 2..Len(TextLines) : Len(FieldsOf(TextLines[k])) >= 2

\* C26: a TimingPoints line of two fields gives a point with time and
\* beat length only; a line of more than two fields also gives meter, the
\* sample-set descriptor and the uninherited flag; effects is set exactly
\* when the line has more than 7 fields; the points are in line order.
C26_TimingPointFields ==
    (TextDecoded /\ TextLines[1] = TIMINGPOINTS /\ TwoFieldsEach) =>
        /\ last.res.ok
        /\ LineByLine(last.res.val.timing_points, Tail(TextLines), PointOfLine)

\* the key and the colour of a Colours line
ColourKey(line)   == strip(split(line, ":")[1])
ColourValue(line) == split(strip(split(line, ":")[2]), ",")
Triple(line) == ListValue([i \in 1..Len(ColourValue(line)) |-> IntValue(IntOf(ColourValue(line)[i]))])

\* Combo followed by digits, and the number the digits read as
IsCombo(line) ==
    /\ startswith(ColourKey(line), <<"C", "o", "m", "b", "o">>)
    /\ Len(ColourKey(line)) > 5
    /\ IsDigits(SubSeq(ColourKey(line), 6, Len(ColourKey(line))))
ComboIndex(line) == DigitsValue(SubSeq(ColourKey(line), 6, Len(ColourKey(line))))

ComboLines == SelectSeq(Tail(TextLines), IsCombo)

\* the place of a combo line in the list: one more than the count of the
\* combo lines of a smaller index
Rank(lines, k) == 1 + Cardinality({j \in 1..Len(lines) : ComboIndex(lines[j]) < ComboIndex(lines[k])})

DistinctIndexes(lines) ==
    \A j, k \in 1..Len(lines) : j # k => ComboIndex(lines[j]) # ComboIndex(lines[k])

ComboByIndex(combo, lines) ==
    /\ Len(combo) = Len(lines)
    /\ \A k \in 1..Len(lines) : combo[Rank(lines, k)] = Triple(lines[k])

FixedFields(colours) ==
    \A k \in 2..Len(TextLines) :
        /\ ColourKey(TextLines[k]) = <<"S", "l", "i", "d", "e", "r", "B", "o", "r", "d", "e", "r">> => colours[<<"s", "l", "i", "d", "e", "r", "_", "b", "o", "r", "d", "e", "r">>] = Triple(TextLines[k])
        /\ ColourKey(TextLines[k]) = <<"S", "l", "i", "d", "e", "r", "T", "r", "a", "c", "k", "O", "v", "e", "r", "r", "i", "d", "e">>
               => colours[<<"s", "l", "i", "d", "e", "r", "_", "t", "r", "a", "c", "k", "_", "o", "v", "e", "r", "r", "i", "d", "e">>] = Triple(TextLines[k])

\* C27: the colours of the Combo<digits> keys make the combo list in the
\* order of their numeric suffix, whatever the order of the lines; the
\* other keys set their fixed field and add nothing to the list.
C27_CombosBySuffix ==
    (SectionDecoded(COLOURS) /\ DistinctIndexes(ComboLines)) =>
        /\ ComboByIndex(last.res.val.colours[<<"c", "o", "m", "b", "o">>].items, ComboLines)
        /\ FixedFields(last.res.val.colours)

\* the section a line is read under: the header last seen before it
RECURSIVE SectionAt(_, _)
SectionAt(data, k) ==
    IF k = 0 THEN NoHeader
    ELSE IF get_header(data[k]) # NoHeader THEN get_header(data[k])
    ELSE SectionAt(data, k - 1)

\* a content line: no header, not blank, no comment
IsContent(line) == get_header(line) = NoHeader /\ strip(line) # <<>> /\ ~startswith(line, <<"/", "/">>)

AllNumbers(fields, n) == Len(fields) >= n /\ \A i \in 1..n : is_number(StrValue(fields[i]))

\* the line does not read under the grammar of the section: no colon in a
\* key: value section, a colour that is not three integers, a timing point
\* of fewer than two numbers, a hit object of fewer than five
Malformed(line, section) ==
    IF section \in {GENERAL, EDITOR, METADATA, DIFFICULTY} THEN ~HasColon(line)
    ELSE IF section = COLOURS
    THEN ~HasColon(line) \/ Len(ColourValue(line)) # 3
            \/ \E i \in 1..Len(ColourValue(line)) : ~IsIntText(ColourValue(line)[i])
    ELSE IF section = TIMINGPOINTS THEN ~AllNumbers(FieldsOf(line), 2)
    ELSE IF section = HITOBJECTS THEN ~AllNumbers(FieldsOf(line), 5)
    ELSE FALSE

MalformedAt(data, k) == IsContent(data[k]) /\ Malformed(data[k], SectionAt(data, k))

\* the error names the line and the section it was read under
Identifies(raised, line, section) ==
    /\ {"line", "section"} \subseteq DOMAIN raised
    /\ raised.line = line
    /\ raised.section = section

\* C24: a content line that does not read under its section's grammar
\* ends the decode with an error that names the line and its section; no
\* document comes back.
C24_MalformedLineAborts ==
    TextDecoded =>
        \A k \in 1..Len(TextLines) :
            (MalformedAt(TextLines, k) /\ \A j \in 1..(k - 1) : ~MalformedAt(TextLines, j))
                => /\ ~last.res.ok
                   /\ Identifies(last.res, TextLines[k], SectionAt(TextLines, k))

\* ---------------------------------------------------------------------
\* The store read back: parse_osudb of a stream of records, some with
\* text that starts like the text of a pickle, then Osudb.beatmaps() and
\* get_beatmap_from_hash on the Osudb it returned.
\* ---------------------------------------------------------------------
RowVersion == 20191106

\* an artist that reads as a bytes literal, a title that opens one
QuotedArtist == [SampleBeatmap(1, RowVersion) EXCEPT !.artist = <<98, 39, 120, 39>>, !.md5_hash = <<104, 51>>]
OpenTitle    == [SampleBeatmap(2, RowVersion) EXCEPT !.title = <<98, 34>>, !.md5_hash = <<104, 52>>]

RowRecords == {SampleBeatmap(1, RowVersion), SampleBeatmap(2, RowVersion), QuotedArtist, OpenTitle}

RowInput(records) ==
    [ver |-> RowVersion, n |-> Len(records), first |-> 1, damage |-> <<"none", 0>>,
     data |-> OsuHeader(RowVersion, UserName, Len(records))
              \o Concat([k \in 1..Len(records) |-> EncBeatmap(records[k], RowVersion)])
              \o EncU32(1)]

RowInputs == {RowInput(records) : records \in UNION {[1..n -> RowRecords] : n \in 0..MaxBeatmaps}}

RowCalls ==
    {[in |-> in, h |-> RunStmts(in.data, 0, HeaderStmts, 1, NoLocals, <<>>)] : in \in RowInputs}

\* the hashes looked up: of the records, of no record, and with quotes
RowKeys ==
    {<<104, 49>>, <<104, 50>>, <<104, 51>>, <<104, 52>>, <<122, 122>>, <<104, 39, 49>>, <<120, 39, 32, 79, 82, 32, 39, 49, 39, 61, 39, 49>>, <<104, 50, 39, 32, 45, 45>>,
     <<104, 50, 39, 59, 32, 68, 82, 79, 80, 32, 84, 65, 66, 76, 69, 32, 98, 101, 97, 116, 109, 97, 112, 115, 59, 32, 45, 45>>}

RowParseOsudb ==
    /\ calls = 0
    /\ ParseOsudbOn(RowCalls)
    /\ last' = NoRead
    /\ UNCHANGED <<buffer, reads>>

RowGetBeatmapFromHash ==
    /\ pc = "done"
    /\ \E hash \in RowKeys :
         last' = [op |-> "get_beatmap_from_hash", at |-> 0, key |-> hash,
                  res |-> get_beatmap_from_hash(db_file, hash)]
    /\ UNCHANGED <<buffer, reads, osu_vars>>

\* osudb.beatmaps() on the Osudb the call returned
IterateBeatmaps ==
    /\ pc = "done"
    /\ last' = [op |-> "beatmaps", at |-> 0, key |-> <<>>, res |-> Osudb_beatmaps(db_file)]
    /\ UNCHANGED <<buffer, reads, osu_vars>>

RowNext ==
    \/ RowParseOsudb \/ ParseBeatmapSkipped \/ ParseBeatmapStored \/ ParseReturn
    \/ RowGetBeatmapFromHash \/ IterateBeatmaps

SpecRows == Init /\ [][RowNext]_vars

\* the decode stored its records: rec_log holds them as they were decoded
StoredDecode == pc = "done" /\ ~skip_beatmaps

\* the fields sqlite hands back as 0 or 1, which Python takes for equal to
\* False and True
BoolColumns ==
    {"unplayed", "is_osz2", "ignore_sound", "ignore_skin", "disable_storyboard",
     "disable_video", "visual_override"}

SameRecord(returned, decoded) ==
    /\ DOMAIN returned = DOMAIN decoded
    /\ \A f \in DOMAIN decoded :
         IF f \in BoolColumns THEN returned[f] = SqlBool(decoded[f]) ELSE returned[f] = decoded[f]

IteratedInOrder(res) ==
    /\ res.ok
    /\ Len(res.val) = Len(rec_log)
    /\ \A k \in 1..Len(rec_log) : SameRecord(res.val[k], rec_log[k].val)

FoundAsDecoded(res, key) ==
    \A k \in 1..Len(rec_log) :
        rec_log[k].val.md5_hash = key => (res.ok /\ SameRecord(res.val, rec_log[k].val))

\* C25: the records a decode stored come back from beatmaps() in the
\* order of their insertion, and each from the lookup under its hash,
\* field for field as they were decoded, whatever their text holds.
C25_StoreRoundTrip ==
    StoredDecode =>
        /\ last.op = "beatmaps" => IteratedInOrder(last.res)
        /\ last.op = "get_beatmap_from_hash" => FoundAsDecoded(last.res, last.key)

\* C30: whatever the key holds, a lookup returns a record with that md5
\* hash or no record, never a record with another hash.
C30_LookupNeverAnotherHash ==
    (last.op = "get_beatmap_from_hash" /\ pc = "done") =>
        /\ last.res.ok
        /\ last.res.val = None \/ last.res.val.md5_hash = last.key


\* ---------------------------------------------------------------------
\* Osudb.from_data with and without skip_beatmaps on the same bytes.
\* ---------------------------------------------------------------------
HeaderFields ==
    {"game_version", "account_unlocked", "unlock_datetime", "username", "user_permissions"}

SkipAgrees(skipped, kept) ==
    /\ skipped.ok
    /\ kept.ok
    /\ \A f \in HeaderFields : skipped.val[f] = kept.val[f]

\* C29: on a whole osu!.db stream, from_data with skip_beatmaps returns an
\* Osudb with the game_version, account_unlocked, unlock_datetime, username
\* and user_permissions that from_data without it returns for the bytes.
C29_SkipKeepsHeader ==
    (last.op = "from_data_skip" /\ buffer.src.kind = "osu" /\ ~Short(buffer.src)) =>
        SkipAgrees(last.res, from_data(buffer.data, FALSE))

====
